---- MODULE Spec2Model ----
(***************************************************************************)
(* State-machine model of the SharkeeHaptics firmware sketches: the        *)
(* intensity-to-haptic mapping, the actuator mode machine and the realtime *)
(* timeout guard.  One behaviour runs one sketch (variable `variant`):     *)
(*   "blended"    Turnkey_Sharkee_Haptics_Blended_Click_Rumble (part_000)  *)
(*   "router"     Sharkee_Haptics_Router_Client                (part_001)  *)
(*   "rumble"     Turnkey_Sharkee_Haptics_HD_Rumble_RTP  (part_002:444-)   *)
(*   "zones"      three-zone low level sketch   (Sharkee_Haptics.ino:1-)   *)
(*   "expressive" Sharkee_Haptics_Final_Expressive_v2          (part_003)  *)
(*   "amplitude"  single-zone sketch, gain 20..255       (part_002:1-443)  *)
(*   "lowlevel"   Final_Expressive_v15_LOW_LEVEL (Sharkee_Haptics.ino:510-)*)
(* A state is taken between two handlers of loop(); every action is one    *)
(* whole handler.  Intensities are fixed point, SCALE units = 1.0.         *)
(***************************************************************************)
EXTENDS Integers, Sequences, FiniteSets, TLC

\* ------------------------------------------------------------------ bounds
\* Updates and web requests are accepted during the first MaxUpdateMs
\* milliseconds of loop(); the clock runs on long enough for the guard.
MaxUpdateMs == 251
\* Cap of the zero-amplitude run counter of the bus observer.
ZeroRunCap == 3
GridStep == 10

\* --------------------------------------------------------------- constants
\* Fixed-point unit: an intensity x is held as x * SCALE.
SCALE == 10000
MIN_INTENSITY_THRESHOLD == 500
WAVEFORM_RTP_THRESHOLD == 3500
REALTIME_TIMEOUT_MS == 500
LRA_SHARP_CLICK == 1
DRV2605_MODE_REALTIME == 5
GAMMA_DEFAULT == 22
\* The raw-register sketch writes these values to REG_MODE.
MODE_STANDBY == 64
MODE_INTERNAL_TRIGGER == 1
MIN_GAIN_VALUE == 20
MAX_GAIN_VALUE == 127
MIN_GAIN == 15
MAX_GAIN == 100
MIN_AMP_SCALE == 20
MAX_AMP_SCALE == 255
FX_IMPACT_HIT == 49
FX_RESIDUAL_HUM == 37
FX_PAUSE == 255
SEQUENCE_TRIGGER_INDEX == 9
\* hapticSequence drives its pulses at FEEDBACK_INTENSITY = 0.7f.
FEEDBACK_INTENSITY == 7000
\* The web test ramp: 11 + 11 steps, delay(30) after each.
TEST_RAMP_STEP == 25
TEST_RAMP_DELAY_MS == 30

Variants == {"blended", "router", "rumble", "zones", "expressive", "amplitude", "lowlevel"}
RealtimeVariants == {"blended", "router", "rumble"}
\* Sketches that keep the isInRealtimeMode flag.
FlaggedVariants == {"blended", "rumble"}

PET_EFFECT_ARRAY == <<1, 3, 5, 8, 11, 15, 20, 24, 28, 30>>
FORCE_EFFECT_ARRAY == <<4, 1, 11, 18, 37, 43, 47, 49, 64, 66>>
IMPACT_EFFECT_ARRAY == <<68, 70, 72, 75, 78, 80, 82, 85, 87, 89>>
MAX_EFFECT_ARRAY == <<4, 1, 11, 18, 37, 43, 47, 49, 64, 66>>

\* Gamma exponents in tenths (2.2, 6.0): the values the model stores.
Gammas == {22, 60}
\* A float that is NaN (gamma values are held in tenths, all positive).
NaN == -1
\* Values a set_gamma request may carry, in tenths; 4 and 61 are out of range.
GammaRequests == {NaN, 4, 22, 60, 61}
\* EEPROM.read(GAMMA_FLAG_ADDR) == 0xA5 and the float at GAMMA_ADDR (tenths):
\* a blank EEPROM, and flagged contents in and out of range.
BlankEeprom == [flag |-> FALSE, gamma |-> NaN]
EepromContents ==
  {BlankEeprom} \cup [flag : {TRUE}, gamma : {NaN, 4, 22, 60, 61}]

\* Raw intensities an OSC float may carry (SCALE units), out-of-range included.
RawInputs == {-2000, 400, 500, 6500, 9500, 15000}

\* An OSC argument: a float (SCALE units) or an integer.
F(x) == [type |-> "f", v |-> x]
I(x) == [type |-> "i", v |-> x]
\* An argument that is neither a float nor an integer (a string, a blob).
OtherArg == [type |-> "s", v |-> 0]

\* Integers an OSC packet may carry: the edges of both encodings and values
\* outside them.
IntInputs == {-1, 0, 1, 2, 50, 100, 101, 128, 255, 256}

\* Streams of float intensities: 0.0, 0.02, 0.5, 0.9, 0.0; a single 1.0; and
\* 0.1, 0.5, 0.1 as it stands and as normalized intensities (0.145, 0.525).
ExampleStream == <<0, 200, 5000, 9000, 0>>
SustainedStream == <<SCALE>>
CrossoverStream == <<1000, 5000, 1000>>
NormalizedCrossoverStream == <<1450, 5250, 1450>>
\* The raw stream an inverting sketch turns into the stream st.
Mirror(st) == [i \in 1..Len(st) |-> SCALE - st[i]]
FloatStreams ==
  {ExampleStream, SustainedStream, CrossoverStream, NormalizedCrossoverStream,
   Mirror(ExampleStream), Mirror(SustainedStream), Mirror(CrossoverStream),
   Mirror(NormalizedCrossoverStream)}
\* The packet streams a sender may deliver: a float stream, one integer, or
\* one argument of another type.
Streams ==
  {[i \in 1..Len(st) |-> F(st[i])] : st \in FloatStreams}
    \cup {<<I(val)>> : val \in IntInputs} \cup {<<OtherArg>>}

\* powf(p/100, 2.2f) in millionths, the default GAMMA
PowTable22 ==
  <<0, 40, 183, 446, 840, 1373, 2051, 2879, 3862, 5004, 6310, 7782, 9423, 11238, 13228,
    15396, 17745, 20276, 22993, 25898, 28991, 32276, 35754, 39428, 43298, 47366, 51635,
    56105, 60778, 65656, 70740, 76032, 81532, 87243, 93165, 99300, 105649, 112213, 118994,
    125992, 133209, 140645, 148302, 156182, 164284, 172611, 181162, 189939, 198944, 208176,
    217638, 227329, 237251, 247404, 257790, 268410, 279263, 290352, 301677, 313238, 325037,
    337074, 349351, 361867, 374624, 387623, 400864, 414347, 428075, 442047, 456263, 470726,
    485435, 500392, 515596, 531049, 546751, 562703, 578906, 595360, 612066, 629024, 646235,
    663700, 681419, 699394, 717623, 736109, 754852, 773852, 793110, 812627, 832402, 852437,
    872733, 893289, 914106, 935186, 956527, 978132, 1000000>>

\* powf(p/100, 6.0f) in millionths
PowTable60 ==
  <<0, 0, 0, 0, 0, 0, 0, 0, 0, 1, 1, 2, 3, 5, 8, 11, 17, 24, 34, 47, 64, 86, 113, 148, 191,
    244, 309, 387, 482, 595, 729, 888, 1074, 1291, 1545, 1838, 2177, 2566, 3011, 3519, 4096,
    4750, 5489, 6321, 7256, 8304, 9474, 10779, 12231, 13841, 15625, 17596, 19771, 22164,
    24795, 27681, 30841, 34296, 38069, 42181, 46656, 51520, 56800, 62523, 68719, 75419,
    82654, 90458, 98867, 107918, 117649, 128100, 139314, 151334, 164207, 177979, 192700,
    208422, 225200, 243088, 262144, 282430, 304007, 326940, 351298, 377150, 404567, 433626,
    464404, 496981, 531441, 567869, 606355, 646990, 689870, 735092, 782758, 832972, 885843,
    941480, 1000000>>

PowTable(g) ==
  CASE g = 22 -> PowTable22
    [] g = 60 -> PowTable60

\* ----------------------------------------------------------------- helpers
Min(a, b) == IF a < b THEN a ELSE b

\* Arduino constrain(amt, low, high).
Constrain(amt, low, high) == IF amt < low THEN low ELSE IF amt > high THEN high ELSE amt

\* roundf(a / b) for a >= 0, b > 0 (halves round away from zero).
RoundDiv(a, b) == (2 * a + b) \div (2 * b)

USE_GAMMA_MAPPING == TRUE

\* applyGammaMapping: the corrected intensity in millionths.  The power is
\* read from the table at the percent grid point of the intensity.
applyGammaMapping(intensity, g) ==
  LET x == Constrain(intensity, 0, SCALE)
  IN  IF ~USE_GAMMA_MAPPING THEN x * 100 ELSE PowTable(g)[(x \div 100) + 1]

\* Mutant of AmplitudeOf: the corrected intensity is scaled by 256, so full
\* drive does not fit into the uint8_t.
AmplitudeOf_ScaledBy256(corrected) == ((256 * corrected + 500000) \div 1000000) % 256

\* (uint8_t)roundf(corrected * 255.0f), corrected in millionths.
AmplitudeOf(corrected) == ((255 * corrected + 500000) \div 1000000) % 256

intensityToRealtimeValue(intensity, g) ==
  AmplitudeOf(Constrain(applyGammaMapping(intensity, g), 0, 1000000))

\* unsigned long is 32 bits wide: a value is held as two 16-bit halves.
HalfWord == 65536
\* millis() at the time t.  The model's time t is counted in milliseconds from
\* boot, or (negative, after the clock has run for weeks) up to the instant
\* millis() wraps to 0; lastReceivedMs holds the time of the stamp and is
\* read through Millis as well.
Millis(t) == [hi |-> (t \div HalfWord) % HalfWord, lo |-> t % HalfWord]
\* a - b in unsigned long arithmetic (modulo 2^32).
Sub32(a, b) ==
  LET borrow == IF a.lo < b.lo THEN 1 ELSE 0
  IN  [hi |-> (a.hi - b.hi - borrow) % HalfWord, lo |-> (a.lo - b.lo) % HalfWord]
\* a > limit for an unsigned long a and a limit below 2^16.
Exceeds(a, limit) == a.hi > 0 \/ a.lo > limit

\* Mutant of ElapsedMs: the difference is not taken modulo 2^32 but held at 0
\* when millis() is below lastReceivedMs.
ElapsedMs_Saturating(t, last) ==
  LET a == Millis(t)
      b == Millis(last)
  IN  IF a.hi < b.hi \/ (a.hi = b.hi /\ a.lo < b.lo)
      THEN [hi |-> 0, lo |-> 0]
      ELSE Sub32(a, b)

\* now - lastReceivedMs.
ElapsedMs(t, last) == Sub32(Millis(t), Millis(last))

\* ------------------------------------------------- actuator bus commands
W(op, a, b) == [op |-> op, a |-> a, b |-> b]
Rtp(v) == W("setRealtimeValue", v, 0)
ModeW(m) == W("setMode", m, 0)
StopW == W("stop", 0, 0)
GoW == W("go", 0, 0)
Wave(slot, effect) == W("setWaveform", slot, effect)
GainW(v) == W("setGain", v, 0)

\* The value each sketch writes to the mode register for "Standby".
StandbyMode(v) == IF v \in {"zones", "lowlevel"} THEN MODE_STANDBY ELSE 0

\* The chip as seen on the bus.  mode and rtp are the registers; the other
\* fields observe the order of the writes:
\*   zeroRun      zero-amplitude writes since the last non-zero amplitude
\*                write or since the mode write that entered Realtime
\*   exitZeros    zeroRun at the last mode write that left Realtime (-1: none)
\*   entryRtp     the amplitude register at the last mode write that entered
\*                Realtime (-1: none)
\*   entryBracket whether a zero-amplitude write came between the last entry
\*                into Realtime and the first non-zero amplitude after it
ApplyWrite(d0, w0) ==
  LET Apply(d, w) ==
        CASE w.op = "setRealtimeValue" ->
               [d EXCEPT !.rtp = w.a,
                         !.zeroRun = IF w.a = 0 THEN Min(d.zeroRun + 1, ZeroRunCap) ELSE 0,
                         !.entryBracket =
                            IF w.a # 0 /\ d.mode = DRV2605_MODE_REALTIME /\ ~d.nzSinceEntry
                            THEN (IF d.zeroRun >= 1 THEN "yes" ELSE "no")
                            ELSE @,
                         !.nzSinceEntry = IF w.a # 0 THEN TRUE ELSE @]
          [] w.op = "setMode" ->
               IF d.mode # DRV2605_MODE_REALTIME /\ w.a = DRV2605_MODE_REALTIME
               THEN [d EXCEPT !.mode = w.a, !.zeroRun = 0, !.entryRtp = d.rtp,
                              !.entryBracket = "none", !.nzSinceEntry = FALSE]
               ELSE IF d.mode = DRV2605_MODE_REALTIME /\ w.a # DRV2605_MODE_REALTIME
               THEN [d EXCEPT !.mode = w.a, !.exitZeros = d.zeroRun]
               ELSE [d EXCEPT !.mode = w.a]
          [] OTHER -> d
  \* d and w are bound to values, so each is evaluated once per write
  IN  CHOOSE r \in {Apply(d, w) : d \in {d0}, w \in {w0}} : TRUE

RECURSIVE Replay(_, _)
Replay(d, ws) == IF ws = <<>> THEN d ELSE Replay(ApplyWrite(d, Head(ws)), Tail(ws))

\* ------------------------------------------------------------- handlers
\* Every handler returns the flags it leaves and the writes it issues:
\* [run, rt, last, w].

\* Mutant of setMotorBlendedRTP: the click is loaded and fired without leaving
\* Realtime mode first.
setMotorBlendedRTP_ClickInRealtime(run, rt, last, raw, t, g) ==
  LET intensity == SCALE - Constrain(raw, 0, SCALE)
  IN  IF intensity < MIN_INTENSITY_THRESHOLD
      THEN [run |-> FALSE, rt |-> IF run THEN FALSE ELSE rt, last |-> last,
            w |-> (IF run THEN (IF rt THEN <<Rtp(0)>> ELSE <<>>) \o <<ModeW(0)>> ELSE <<>>)
                  \o <<StopW>>]
      ELSE IF intensity < WAVEFORM_RTP_THRESHOLD
      THEN [run |-> TRUE, rt |-> rt, last |-> t,
            w |-> <<Wave(0, LRA_SHARP_CLICK), Wave(1, 0), GoW>>]
      ELSE [run |-> TRUE, rt |-> TRUE, last |-> t,
            w |-> (IF ~rt THEN <<ModeW(DRV2605_MODE_REALTIME), StopW>> ELSE <<>>)
                  \o <<Rtp(AmplitudeOf(applyGammaMapping(intensity, g)))>>]

\* Mutant of setMotorBlendedRTP: drv.stop() is issued only when the motor runs.
setMotorBlendedRTP_StopOnlyWhenRunning(run, rt, last, raw, t, g) ==
  LET intensity == SCALE - Constrain(raw, 0, SCALE)
  IN  IF intensity < MIN_INTENSITY_THRESHOLD
      THEN [run |-> FALSE, rt |-> IF run THEN FALSE ELSE rt, last |-> last,
            w |-> IF run THEN (IF rt THEN <<Rtp(0)>> ELSE <<>>) \o <<ModeW(0), StopW>>
                  ELSE <<>>]
      ELSE IF intensity < WAVEFORM_RTP_THRESHOLD
      THEN [run |-> TRUE, rt |-> FALSE, last |-> t,
            w |-> (IF rt THEN <<Rtp(0), ModeW(1)>> ELSE <<>>)
                  \o <<Wave(0, LRA_SHARP_CLICK), Wave(1, 0), GoW>>]
      ELSE [run |-> TRUE, rt |-> TRUE, last |-> t,
            w |-> (IF ~rt THEN <<ModeW(DRV2605_MODE_REALTIME), StopW>> ELSE <<>>)
                  \o <<Rtp(AmplitudeOf(applyGammaMapping(intensity, g)))>>]

\* Mutant of setMotorBlendedRTP: the click gives way to Realtime at the upper
\* zone boundary (normalized 0.66) instead of WAVEFORM_RTP_THRESHOLD.
setMotorBlendedRTP_CrossoverAtZoneBoundary(run, rt, last, raw, t, g) ==
  LET intensity == SCALE - Constrain(raw, 0, SCALE)
  IN  IF intensity < MIN_INTENSITY_THRESHOLD
      THEN [run |-> FALSE, rt |-> IF run THEN FALSE ELSE rt, last |-> last,
            w |-> (IF run THEN (IF rt THEN <<Rtp(0)>> ELSE <<>>) \o <<ModeW(0)>> ELSE <<>>)
                  \o <<StopW>>]
      ELSE IF intensity - MIN_INTENSITY_THRESHOLD < (66 * (SCALE - MIN_INTENSITY_THRESHOLD)) \div 100
      THEN [run |-> TRUE, rt |-> FALSE, last |-> t,
            w |-> (IF rt THEN <<Rtp(0), ModeW(1)>> ELSE <<>>)
                  \o <<Wave(0, LRA_SHARP_CLICK), Wave(1, 0), GoW>>]
      ELSE [run |-> TRUE, rt |-> TRUE, last |-> t,
            w |-> (IF ~rt THEN <<ModeW(DRV2605_MODE_REALTIME), StopW>> ELSE <<>>)
                  \o <<Rtp(AmplitudeOf(applyGammaMapping(intensity, g)))>>]

\* Mutant of setMotorBlendedRTP: a click does not refresh lastReceivedMs.
setMotorBlendedRTP_ClickKeepsTimestamp(run, rt, last, raw, t, g) ==
  LET intensity == SCALE - Constrain(raw, 0, SCALE)
  IN  IF intensity < MIN_INTENSITY_THRESHOLD
      THEN [run |-> FALSE, rt |-> IF run THEN FALSE ELSE rt, last |-> last,
            w |-> (IF run THEN (IF rt THEN <<Rtp(0)>> ELSE <<>>) \o <<ModeW(0)>> ELSE <<>>)
                  \o <<StopW>>]
      ELSE IF intensity < WAVEFORM_RTP_THRESHOLD
      THEN [run |-> TRUE, rt |-> FALSE, last |-> last,
            w |-> (IF rt THEN <<Rtp(0), ModeW(1)>> ELSE <<>>)
                  \o <<Wave(0, LRA_SHARP_CLICK), Wave(1, 0), GoW>>]
      ELSE [run |-> TRUE, rt |-> TRUE, last |-> t,
            w |-> (IF ~rt THEN <<ModeW(DRV2605_MODE_REALTIME), StopW>> ELSE <<>>)
                  \o <<Rtp(AmplitudeOf(applyGammaMapping(intensity, g)))>>]

\* Mutant of setMotorBlendedRTP: WAVEFORM_RTP_THRESHOLD itself still plays the
\* click.
setMotorBlendedRTP_ClickAtThreshold(run, rt, last, raw, t, g) ==
  LET intensity == SCALE - Constrain(raw, 0, SCALE)
  IN  IF intensity < MIN_INTENSITY_THRESHOLD
      THEN [run |-> FALSE, rt |-> IF run THEN FALSE ELSE rt, last |-> last,
            w |-> (IF run THEN (IF rt THEN <<Rtp(0)>> ELSE <<>>) \o <<ModeW(0)>> ELSE <<>>)
                  \o <<StopW>>]
      ELSE IF intensity <= WAVEFORM_RTP_THRESHOLD
      THEN [run |-> TRUE, rt |-> FALSE, last |-> t,
            w |-> (IF rt THEN <<Rtp(0), ModeW(1)>> ELSE <<>>)
                  \o <<Wave(0, LRA_SHARP_CLICK), Wave(1, 0), GoW>>]
      ELSE [run |-> TRUE, rt |-> TRUE, last |-> t,
            w |-> (IF ~rt THEN <<ModeW(DRV2605_MODE_REALTIME), StopW>> ELSE <<>>)
                  \o <<Rtp(AmplitudeOf(applyGammaMapping(intensity, g)))>>]

\* part_000: setMotorBlendedRTP(intensity), called at clock value t.
setMotorBlendedRTP(run, rt, last, raw, t, g) ==
  LET intensity == SCALE - Constrain(raw, 0, SCALE)
  IN  IF intensity < MIN_INTENSITY_THRESHOLD
      THEN [run |-> FALSE, rt |-> IF run THEN FALSE ELSE rt, last |-> last,
            w |-> (IF run THEN (IF rt THEN <<Rtp(0)>> ELSE <<>>) \o <<ModeW(0)>> ELSE <<>>)
                  \o <<StopW>>]
      ELSE IF intensity < WAVEFORM_RTP_THRESHOLD
      THEN [run |-> TRUE, rt |-> FALSE, last |-> t,
            w |-> (IF rt THEN <<Rtp(0), ModeW(1)>> ELSE <<>>)
                  \o <<Wave(0, LRA_SHARP_CLICK), Wave(1, 0), GoW>>]
      ELSE [run |-> TRUE, rt |-> TRUE, last |-> t,
            w |-> (IF ~rt THEN <<ModeW(DRV2605_MODE_REALTIME), StopW>> ELSE <<>>)
                  \o <<Rtp(AmplitudeOf(applyGammaMapping(intensity, g)))>>]

\* Mutant of checkRealtimeTimeoutBlended: the guard does not look at
\* isInRealtimeMode, so it also fires after a click.
checkRealtimeTimeoutBlended_IgnoresMode(run, rt, last, t) ==
  IF run /\ Exceeds(ElapsedMs(t, last), REALTIME_TIMEOUT_MS)
  THEN [run |-> FALSE, rt |-> FALSE, last |-> last, w |-> <<Rtp(0), ModeW(0)>>]
  ELSE [run |-> run, rt |-> rt, last |-> last, w |-> <<>>]

\* Mutant of checkRealtimeTimeoutBlended: after a click the guard clears
\* isMotorRunning (without any write).
checkRealtimeTimeoutBlended_ClearsRunning(run, rt, last, t) ==
  IF run /\ Exceeds(ElapsedMs(t, last), REALTIME_TIMEOUT_MS)
  THEN [run |-> FALSE, rt |-> FALSE, last |-> last,
        w |-> IF rt THEN <<Rtp(0), ModeW(0)>> ELSE <<>>]
  ELSE [run |-> run, rt |-> rt, last |-> last, w |-> <<>>]

\* Mutant of checkRealtimeTimeoutBlended: the mode write is forgotten.
checkRealtimeTimeoutBlended_NoModeWrite(run, rt, last, t) ==
  IF run /\ rt /\ Exceeds(ElapsedMs(t, last), REALTIME_TIMEOUT_MS)
  THEN [run |-> FALSE, rt |-> FALSE, last |-> last, w |-> <<Rtp(0)>>]
  ELSE [run |-> run, rt |-> rt, last |-> last, w |-> <<>>]

\* Mutant of checkRealtimeTimeoutBlended: the guard fires at an elapsed time
\* of exactly REALTIME_TIMEOUT_MS already.
checkRealtimeTimeoutBlended_FiresAtLimit(run, rt, last, t) ==
  IF run /\ rt /\ Exceeds(ElapsedMs(t, last), REALTIME_TIMEOUT_MS - 1)
  THEN [run |-> FALSE, rt |-> FALSE, last |-> last, w |-> <<Rtp(0), ModeW(0)>>]
  ELSE [run |-> run, rt |-> rt, last |-> last, w |-> <<>>]

\* part_000: checkRealtimeTimeout().
checkRealtimeTimeoutBlended(run, rt, last, t) ==
  IF run /\ rt /\ Exceeds(ElapsedMs(t, last), REALTIME_TIMEOUT_MS)
  THEN [run |-> FALSE, rt |-> FALSE, last |-> last, w |-> <<Rtp(0), ModeW(0)>>]
  ELSE [run |-> run, rt |-> rt, last |-> last, w |-> <<>>]

\* The web test ramp: v = 0, 25, .., 250 and then v = 255, 230, .., 5.
RampUp == [i \in 1..11 |-> Rtp(TEST_RAMP_STEP * (i - 1))]
RampDown == [i \in 1..11 |-> Rtp(255 - TEST_RAMP_STEP * (i - 1))]
TestRampMs == (Len(RampUp) + Len(RampDown)) * TEST_RAMP_DELAY_MS

\* Mutant of handleConfigActionTest: the ramp is not followed by a
\* zero-amplitude write.
handleConfigActionTest_NoFinalZero(run, rt, last) ==
  [run |-> FALSE, rt |-> FALSE, last |-> last,
   w |-> (IF ~rt THEN <<ModeW(DRV2605_MODE_REALTIME)>> ELSE <<>>)
         \o RampUp \o RampDown \o <<ModeW(0)>>]

\* Mutant of handleConfigActionTest: isInRealtimeMode is left set at the end.
handleConfigActionTest_KeepsRealtimeFlag(run, rt, last) ==
  [run |-> FALSE, rt |-> TRUE, last |-> last,
   w |-> (IF ~rt THEN <<ModeW(DRV2605_MODE_REALTIME)>> ELSE <<>>)
         \o RampUp \o RampDown \o <<Rtp(0), ModeW(0)>>]

\* part_000 and part_002: handleConfigAction(), action == "test".
handleConfigActionTest(run, rt, last) ==
  [run |-> FALSE, rt |-> FALSE, last |-> last,
   w |-> (IF ~rt THEN <<ModeW(DRV2605_MODE_REALTIME)>> ELSE <<>>)
         \o RampUp \o RampDown \o <<Rtp(0), ModeW(0)>>]

\* Mutant of setMotorRealtime: the threshold itself counts as below threshold.
setMotorRealtime_StopAtThreshold(run, rt, last, raw, t, g) ==
  LET intensity == Constrain(raw, 0, SCALE)
  IN  IF intensity <= MIN_INTENSITY_THRESHOLD
      THEN [run |-> FALSE, rt |-> rt, last |-> last,
            w |-> IF run THEN <<Rtp(0), ModeW(0)>> ELSE <<>>]
      ELSE [run |-> TRUE, rt |-> rt, last |-> t,
            w |-> (IF ~run THEN <<ModeW(DRV2605_MODE_REALTIME)>> ELSE <<>>)
                  \o <<Rtp(intensityToRealtimeValue(intensity, g))>>]

\* Mutant of setMotorRealtime: the stop branch forgets the zero amplitude.
setMotorRealtime_NoZeroBracket(run, rt, last, raw, t, g) ==
  LET intensity == Constrain(raw, 0, SCALE)
  IN  IF intensity < MIN_INTENSITY_THRESHOLD
      THEN [run |-> FALSE, rt |-> rt, last |-> last,
            w |-> IF run THEN <<ModeW(0)>> ELSE <<>>]
      ELSE [run |-> TRUE, rt |-> rt, last |-> t,
            w |-> (IF ~run THEN <<ModeW(DRV2605_MODE_REALTIME)>> ELSE <<>>)
                  \o <<Rtp(intensityToRealtimeValue(intensity, g))>>]

\* part_001: setMotorRealtime(intensity).
setMotorRealtime(run, rt, last, raw, t, g) ==
  LET intensity == Constrain(raw, 0, SCALE)
  IN  IF intensity < MIN_INTENSITY_THRESHOLD
      THEN [run |-> FALSE, rt |-> rt, last |-> last,
            w |-> IF run THEN <<Rtp(0), ModeW(0)>> ELSE <<>>]
      ELSE [run |-> TRUE, rt |-> rt, last |-> t,
            w |-> (IF ~run THEN <<ModeW(DRV2605_MODE_REALTIME)>> ELSE <<>>)
                  \o <<Rtp(intensityToRealtimeValue(intensity, g))>>]

\* part_001: the pulse loop of hapticSequence, from pulse i on.
RECURSIVE HapticPulses(_, _, _, _)
HapticPulses(i, pulses, run, pulseSpeed) ==
  IF i >= pulses
  THEN [run |-> run, w |-> <<>>]
  ELSE LET rest == HapticPulses(i + 1, pulses, TRUE, pulseSpeed)
       IN  [run |-> rest.run,
            w |-> (IF ~run THEN <<ModeW(DRV2605_MODE_REALTIME)>> ELSE <<>>)
                  \o <<Rtp(pulseSpeed), Rtp(0)>> \o rest.w]

\* part_001: hapticSequence(pulses, duration_ms).
hapticSequence(run, pulses, g) ==
  LET loop == HapticPulses(0, pulses, run, intensityToRealtimeValue(FEEDBACK_INTENSITY, g))
  IN  IF ~run
      THEN [run |-> FALSE, w |-> loop.w \o <<Rtp(0), ModeW(0)>>]
      ELSE [run |-> loop.run, w |-> loop.w \o <<Rtp(0)>>]

\* Mutant of checkRealtimeTimeoutRouter: the guard does not look at
\* isMotorRunning.
checkRealtimeTimeoutRouter_IgnoresRunning(run, rt, last, t) ==
  IF Exceeds(ElapsedMs(t, last), REALTIME_TIMEOUT_MS)
  THEN [run |-> FALSE, rt |-> rt, last |-> last, w |-> <<Rtp(0), ModeW(0)>>]
  ELSE [run |-> run, rt |-> rt, last |-> last, w |-> <<>>]

\* Mutant of checkRealtimeTimeoutRouter: the timeout leaves isMotorRunning set.
checkRealtimeTimeoutRouter_KeepsRunning(run, rt, last, t) ==
  IF run /\ Exceeds(ElapsedMs(t, last), REALTIME_TIMEOUT_MS)
  THEN [run |-> run, rt |-> rt, last |-> last, w |-> <<Rtp(0), ModeW(0)>>]
  ELSE [run |-> run, rt |-> rt, last |-> last, w |-> <<>>]

\* part_001: checkRealtimeTimeout().
checkRealtimeTimeoutRouter(run, rt, last, t) ==
  IF run /\ Exceeds(ElapsedMs(t, last), REALTIME_TIMEOUT_MS)
  THEN [run |-> FALSE, rt |-> rt, last |-> last, w |-> <<Rtp(0), ModeW(0)>>]
  ELSE [run |-> run, rt |-> rt, last |-> last, w |-> <<>>]

\* Mutant of setMotorRTPRumble: drv.stop() is left out on entering Realtime.
setMotorRTPRumble_NoStop(run, rt, last, raw, t, g) ==
  LET intensity == SCALE - Constrain(raw, 0, SCALE)
  IN  IF intensity < MIN_INTENSITY_THRESHOLD
      THEN [run |-> FALSE, rt |-> IF run THEN FALSE ELSE rt, last |-> last,
            w |-> (IF run THEN <<Rtp(0), ModeW(0)>> ELSE <<>>) \o <<StopW>>]
      ELSE [run |-> TRUE, rt |-> TRUE, last |-> t,
            w |-> (IF ~rt THEN <<ModeW(DRV2605_MODE_REALTIME)>> ELSE <<>>)
                  \o <<Rtp(AmplitudeOf(applyGammaMapping(intensity, g)))>>]

\* Mutant of setMotorRTPRumble: the stop branch leaves the amplitude register
\* as it is.
setMotorRTPRumble_NoZero(run, rt, last, raw, t, g) ==
  LET intensity == SCALE - Constrain(raw, 0, SCALE)
  IN  IF intensity < MIN_INTENSITY_THRESHOLD
      THEN [run |-> FALSE, rt |-> IF run THEN FALSE ELSE rt, last |-> last,
            w |-> (IF run THEN <<ModeW(0)>> ELSE <<>>) \o <<StopW>>]
      ELSE [run |-> TRUE, rt |-> TRUE, last |-> t,
            w |-> (IF ~rt THEN <<ModeW(DRV2605_MODE_REALTIME), StopW>> ELSE <<>>)
                  \o <<Rtp(AmplitudeOf(applyGammaMapping(intensity, g)))>>]

\* part_002: setMotorRTPRumble(intensity).
setMotorRTPRumble(run, rt, last, raw, t, g) ==
  LET intensity == SCALE - Constrain(raw, 0, SCALE)
  IN  IF intensity < MIN_INTENSITY_THRESHOLD
      THEN [run |-> FALSE, rt |-> IF run THEN FALSE ELSE rt, last |-> last,
            w |-> (IF run THEN <<Rtp(0), ModeW(0)>> ELSE <<>>) \o <<StopW>>]
      ELSE [run |-> TRUE, rt |-> TRUE, last |-> t,
            w |-> (IF ~rt THEN <<ModeW(DRV2605_MODE_REALTIME), StopW>> ELSE <<>>)
                  \o <<Rtp(AmplitudeOf(applyGammaMapping(intensity, g)))>>]

\* Mutant of checkRealtimeTimeoutRumble: the timeout clears isMotorRunning
\* only.
checkRealtimeTimeoutRumble_KeepsRealtimeFlag(run, rt, last, t) ==
  IF run /\ rt /\ Exceeds(ElapsedMs(t, last), REALTIME_TIMEOUT_MS)
  THEN [run |-> FALSE, rt |-> rt, last |-> last, w |-> <<Rtp(0), ModeW(0)>>]
  ELSE [run |-> run, rt |-> rt, last |-> last, w |-> <<>>]

\* Mutant of checkRealtimeTimeoutRumble: the guard compares the elapsed time
\* with the largest 16-bit value and never fires.
checkRealtimeTimeoutRumble_NeverStale(run, rt, last, t) ==
  IF run /\ rt /\ Exceeds(ElapsedMs(t, last), HalfWord - 1)
  THEN [run |-> FALSE, rt |-> FALSE, last |-> last, w |-> <<Rtp(0), ModeW(0)>>]
  ELSE [run |-> run, rt |-> rt, last |-> last, w |-> <<>>]

\* part_002: checkRealtimeTimeout().
checkRealtimeTimeoutRumble(run, rt, last, t) ==
  IF run /\ rt /\ Exceeds(ElapsedMs(t, last), REALTIME_TIMEOUT_MS)
  THEN [run |-> FALSE, rt |-> FALSE, last |-> last, w |-> <<Rtp(0), ModeW(0)>>]
  ELSE [run |-> run, rt |-> rt, last |-> last, w |-> <<>>]

\* The complex sequence: impact hit, pause, residual hum, terminator.
ComplexSequence ==
  <<Wave(0, FX_IMPACT_HIT), Wave(1, FX_PAUSE), Wave(2, FX_RESIDUAL_HUM), Wave(3, 0), GoW>>

\* Mutant of SingleEffect: the terminator in slot 1 is left out.
SingleEffect_NoTerminator(effect) == <<Wave(0, effect), GoW>>

\* A single effect: the effect in slot 0, the terminator in slot 1, go.
SingleEffect(effect) == <<Wave(0, effect), Wave(1, 0), GoW>>

\* The numerator of normalizedIntensity over the denominator SCALE - threshold.
NormalizedNum(intensity) ==
  Constrain(intensity - MIN_INTENSITY_THRESHOLD, 0, SCALE - MIN_INTENSITY_THRESHOLD)
NormalizedDen == SCALE - MIN_INTENSITY_THRESHOLD

\* roundf(normalizedIntensity * m) for the normalized intensity n / NormalizedDen.
\* The float32 quotient (x - 0.05f) / 0.95f is not the exact quotient: where
\* the exact product lies halfway between two integers the float32 product
\* lies just below it for n up to one half and on it above one half (this
\* agrees with the float32 evaluation on every ten-thousandth of the input).
RoundProduct(n, m) ==
  IF (2 * n * m) % (2 * NormalizedDen) = NormalizedDen /\ 2 * n <= NormalizedDen
  THEN (n * m) \div NormalizedDen
  ELSE RoundDiv(n * m, NormalizedDen)

\* Mutant of SelectZone: the boundaries are compared with < instead of <=.
SelectZone_StrictBoundaries(n) ==
  IF n * 100 < 33 * NormalizedDen THEN "pet"
  ELSE IF n * 100 < 66 * NormalizedDen THEN "force"
  ELSE "impact"

\* Mutant of SelectZone: the zones are tested in the reverse order of strength.
SelectZone_Reversed(n) ==
  IF n * 100 <= 33 * NormalizedDen THEN "impact"
  ELSE IF n * 100 <= 66 * NormalizedDen THEN "force"
  ELSE "pet"

\* Sharkee_Haptics.ino: the texture zone of a normalized intensity n / NormalizedDen.
SelectZone(n) ==
  IF n * 100 <= 33 * NormalizedDen THEN "pet"
  ELSE IF n * 100 <= 66 * NormalizedDen THEN "force"
  ELSE "impact"

ZoneArray(zone) ==
  CASE zone = "pet" -> PET_EFFECT_ARRAY
    [] zone = "force" -> FORCE_EFFECT_ARRAY
    [] zone = "impact" -> IMPACT_EFFECT_ARRAY

\* Mutant of GainOf: the normalized intensity is scaled by the maximum gain
\* instead of the gain range, so the uint8_t sum can wrap.
GainOf_ScaledByMax(n, minGain, maxGain) ==
  Constrain(((RoundProduct(n, maxGain) % 256) + minGain) % 256, minGain, maxGain)

\* Mutant of GainOf: the gain falls from maxGain to minGain as the normalized
\* intensity grows.
GainOf_Falling(n, minGain, maxGain) ==
  Constrain(maxGain - (RoundProduct(n, maxGain - minGain) % 256), minGain, maxGain)

\* uint8_t gain = (uint8_t)roundf(normalized * (max - min)) + min, constrained.
GainOf(n, minGain, maxGain) ==
  Constrain(((RoundProduct(n, maxGain - minGain) % 256) + minGain) % 256,
            minGain, maxGain)

\* The sketches whose runTestWaveform scales a gain_percent, and their gain
\* ranges (20..127 in Sharkee_Haptics.ino, 20..255 in part_002).
TestVariants == {"zones", "lowlevel", "amplitude"}
TestMinGain(v) == IF v = "amplitude" THEN MIN_AMP_SCALE ELSE MIN_GAIN_VALUE
TestMaxGain(v) == IF v = "amplitude" THEN MAX_AMP_SCALE ELSE MAX_GAIN_VALUE
\* uint8_t (uint8_t)roundf((gain_percent / 100.0f) * (max - min)) + min,
\* constrained.
TestGainOf(gain_percent, minGain, maxGain) ==
  Constrain(((RoundDiv(gain_percent * (maxGain - minGain), 100) % 256) + minGain) % 256,
            minGain, maxGain)
\* runTestWaveform(effect, gain_percent).
runTestWaveform(v, effect, gain_percent) ==
  <<ModeW(MODE_INTERNAL_TRIGGER),
    GainW(TestGainOf(gain_percent, TestMinGain(v), TestMaxGain(v))),
    Wave(0, effect), Wave(1, 0), GoW, ModeW(StandbyMode(v))>>

\* Mutant of setMotorLibraryEffectZones: a negative intensity is replaced by
\* its magnitude instead of 0.
setMotorLibraryEffectZones_Magnitude(run, rt, last, raw, t, g) ==
  LET intensity == Constrain(IF raw < 0 THEN -raw ELSE raw, 0, SCALE)
      n == NormalizedNum(intensity)
      zone == SelectZone(n)
      arr == ZoneArray(zone)
      effectIndex == RoundProduct(n, Len(arr) - 1)
  IN  IF intensity < MIN_INTENSITY_THRESHOLD
      THEN [run |-> run, rt |-> rt, last |-> last, w |-> <<GainW(0), ModeW(MODE_STANDBY)>>]
      ELSE [run |-> run, rt |-> rt, last |-> last,
            w |-> <<ModeW(MODE_INTERNAL_TRIGGER), GainW(GainOf(n, MIN_GAIN_VALUE, MAX_GAIN_VALUE))>>
                  \o (IF effectIndex = SEQUENCE_TRIGGER_INDEX /\ zone = "impact"
                      THEN ComplexSequence
                      ELSE SingleEffect(arr[effectIndex + 1]))]

\* Mutant of setMotorLibraryEffectZones: the stop branch zeroes the gain but
\* does not write the mode register.
setMotorLibraryEffectZones_NoStandbyWrite(run, rt, last, raw, t, g) ==
  LET intensity == Constrain(raw, 0, SCALE)
      n == NormalizedNum(intensity)
      zone == SelectZone(n)
      arr == ZoneArray(zone)
      effectIndex == RoundProduct(n, Len(arr) - 1)
  IN  IF intensity < MIN_INTENSITY_THRESHOLD
      THEN [run |-> run, rt |-> rt, last |-> last, w |-> <<GainW(0)>>]
      ELSE [run |-> run, rt |-> rt, last |-> last,
            w |-> <<ModeW(MODE_INTERNAL_TRIGGER), GainW(GainOf(n, MIN_GAIN_VALUE, MAX_GAIN_VALUE))>>
                  \o (IF effectIndex = SEQUENCE_TRIGGER_INDEX /\ zone = "impact"
                      THEN ComplexSequence
                      ELSE SingleEffect(arr[effectIndex + 1]))]

\* Sharkee_Haptics.ino: setMotorLibraryEffect(intensity), three zones, raw registers.
setMotorLibraryEffectZones(run, rt, last, raw, t, g) ==
  LET intensity == Constrain(raw, 0, SCALE)
      n == NormalizedNum(intensity)
      zone == SelectZone(n)
      arr == ZoneArray(zone)
      effectIndex == RoundProduct(n, Len(arr) - 1)
  IN  IF intensity < MIN_INTENSITY_THRESHOLD
      THEN [run |-> run, rt |-> rt, last |-> last, w |-> <<GainW(0), ModeW(MODE_STANDBY)>>]
      ELSE [run |-> run, rt |-> rt, last |-> last,
            w |-> <<ModeW(MODE_INTERNAL_TRIGGER), GainW(GainOf(n, MIN_GAIN_VALUE, MAX_GAIN_VALUE))>>
                  \o (IF effectIndex = SEQUENCE_TRIGGER_INDEX /\ zone = "impact"
                      THEN ComplexSequence
                      ELSE SingleEffect(arr[effectIndex + 1]))]

\* Mutant of setMotorLibraryEffectExpressive: the intensity is not inverted.
setMotorLibraryEffectExpressive_NotInverted(run, rt, last, raw, t, g) ==
  LET intensity == Constrain(raw, 0, SCALE)
      n == NormalizedNum(intensity)
      effectIndex == RoundProduct(n, Len(MAX_EFFECT_ARRAY) - 1)
  IN  IF intensity < MIN_INTENSITY_THRESHOLD
      THEN [run |-> run, rt |-> rt, last |-> last, w |-> <<StopW, ModeW(0)>>]
      ELSE [run |-> run, rt |-> rt, last |-> last,
            w |-> <<ModeW(1), GainW(GainOf(n, MIN_GAIN, MAX_GAIN))>>
                  \o (IF effectIndex = SEQUENCE_TRIGGER_INDEX
                      THEN ComplexSequence
                      ELSE SingleEffect(MAX_EFFECT_ARRAY[effectIndex + 1]))]

\* part_003: setMotorLibraryEffect(intensity), one zone.
setMotorLibraryEffectExpressive(run, rt, last, raw, t, g) ==
  LET invertedIntensity == SCALE - Constrain(raw, 0, SCALE)
      n == NormalizedNum(invertedIntensity)
      effectIndex == RoundProduct(n, Len(MAX_EFFECT_ARRAY) - 1)
  IN  IF invertedIntensity < MIN_INTENSITY_THRESHOLD
      THEN [run |-> run, rt |-> rt, last |-> last, w |-> <<StopW, ModeW(0)>>]
      ELSE [run |-> run, rt |-> rt, last |-> last,
            w |-> <<ModeW(1), GainW(GainOf(n, MIN_GAIN, MAX_GAIN))>>
                  \o (IF effectIndex = SEQUENCE_TRIGGER_INDEX
                      THEN ComplexSequence
                      ELSE SingleEffect(MAX_EFFECT_ARRAY[effectIndex + 1]))]

\* Mutant of setMotorLibraryEffectAmplitude: the trigger index plays its table
\* entry like every other index.
setMotorLibraryEffectAmplitude_NoSequence(run, rt, last, raw, t, g) ==
  LET invertedIntensity == SCALE - Constrain(raw, 0, SCALE)
      n == NormalizedNum(invertedIntensity)
      effectIndex == RoundProduct(n, Len(MAX_EFFECT_ARRAY) - 1)
  IN  IF invertedIntensity < MIN_INTENSITY_THRESHOLD
      THEN [run |-> run, rt |-> rt, last |-> last, w |-> <<GainW(0), StopW, ModeW(0)>>]
      ELSE [run |-> run, rt |-> rt, last |-> last,
            w |-> <<ModeW(1), GainW(GainOf(n, MIN_AMP_SCALE, MAX_AMP_SCALE))>>
                  \o SingleEffect(MAX_EFFECT_ARRAY[effectIndex + 1])]

\* part_002 (first sketch): setMotorLibraryEffect(intensity), one zone,
\* amplitude scale 20..255.
setMotorLibraryEffectAmplitude(run, rt, last, raw, t, g) ==
  LET invertedIntensity == SCALE - Constrain(raw, 0, SCALE)
      n == NormalizedNum(invertedIntensity)
      effectIndex == RoundProduct(n, Len(MAX_EFFECT_ARRAY) - 1)
  IN  IF invertedIntensity < MIN_INTENSITY_THRESHOLD
      THEN [run |-> run, rt |-> rt, last |-> last, w |-> <<GainW(0), StopW, ModeW(0)>>]
      ELSE [run |-> run, rt |-> rt, last |-> last,
            w |-> <<ModeW(1), GainW(GainOf(n, MIN_AMP_SCALE, MAX_AMP_SCALE))>>
                  \o (IF effectIndex = SEQUENCE_TRIGGER_INDEX
                      THEN ComplexSequence
                      ELSE SingleEffect(MAX_EFFECT_ARRAY[effectIndex + 1]))]

\* Sharkee_Haptics.ino (second sketch): setMotorLibraryEffect(intensity), one
\* zone, raw registers.
setMotorLibraryEffectLowLevel(run, rt, last, raw, t, g) ==
  LET invertedIntensity == SCALE - Constrain(raw, 0, SCALE)
      n == NormalizedNum(invertedIntensity)
      effectIndex == RoundProduct(n, Len(MAX_EFFECT_ARRAY) - 1)
  IN  IF invertedIntensity < MIN_INTENSITY_THRESHOLD
      THEN [run |-> run, rt |-> rt, last |-> last, w |-> <<GainW(0), ModeW(MODE_STANDBY)>>]
      ELSE [run |-> run, rt |-> rt, last |-> last,
            w |-> <<ModeW(MODE_INTERNAL_TRIGGER), GainW(GainOf(n, MIN_GAIN_VALUE, MAX_GAIN_VALUE))>>
                  \o (IF effectIndex = SEQUENCE_TRIGGER_INDEX
                      THEN ComplexSequence
                      ELSE SingleEffect(MAX_EFFECT_ARRAY[effectIndex + 1]))]

\* The intensity each sketch compares with the threshold.
EffectiveIntensity(v, raw) ==
  IF v \in {"router", "zones"} THEN Constrain(raw, 0, SCALE) ELSE SCALE - Constrain(raw, 0, SCALE)

\* handleRouterOscInput: the intensity passed to the core for the argument a.
\* The router client looks at float arguments only (AcceptsArg).
ArgIntensity(a) ==
  IF a.type = "f" THEN a.v
  ELSE IF a.type # "i" THEN 0
  ELSE IF a.v > 1 /\ a.v <= 255 THEN RoundDiv(a.v * SCALE, 255)
  ELSE IF a.v >= 0 /\ a.v <= 100 THEN (a.v * SCALE) \div 100
  ELSE 0
AcceptsArg(v, a) == v # "router" \/ a.type = "f"

\* handleRouterOscInput: the core function each sketch calls on a float argument.
ProcessUpdate(v, run, rt, last, raw, t, g) ==
  CASE v = "blended" -> setMotorBlendedRTP(run, rt, last, raw, t, g)
    [] v = "router" -> setMotorRealtime(run, rt, last, raw, t, g)
    [] v = "rumble" -> setMotorRTPRumble(run, rt, last, raw, t, g)
    [] v = "zones" -> setMotorLibraryEffectZones(run, rt, last, raw, t, g)
    [] v = "expressive" -> setMotorLibraryEffectExpressive(run, rt, last, raw, t, g)
    [] v = "amplitude" -> setMotorLibraryEffectAmplitude(run, rt, last, raw, t, g)
    [] v = "lowlevel" -> setMotorLibraryEffectLowLevel(run, rt, last, raw, t, g)

\* loop(): the timeout check of each sketch (the library sketches have none).
ProcessTimeout(v, run, rt, last, t) ==
  CASE v = "blended" -> checkRealtimeTimeoutBlended(run, rt, last, t)
    [] v = "router" -> checkRealtimeTimeoutRouter(run, rt, last, t)
    [] v = "rumble" -> checkRealtimeTimeoutRumble(run, rt, last, t)

\* A NaN intensity.  constrain() returns NaN and every comparison with NaN is
\* false, so no sketch takes its stop branch (nor, in the blended sketch, the
\* click branch; the three-zone sketch falls through to the Impact zone).
\* Converting NaN to int or uint8_t is undefined; ub holds what the build
\* makes of it:
\*   ub.idx   (int)roundf(NaN * 9)
\*   ub.byte  (uint8_t)roundf(NaN * range)
\*   ub.read  the byte an out-of-bounds effect-table read returns (-1: the
\*            read raises a load exception and the handler writes no more)
ConvertedIndex == {0, SEQUENCE_TRIGGER_INDEX, 2147483647}
ConvertedByte == {0, 200}
OutOfBoundsRead == {-1, 0, 255}
ConversionOutcomes == [idx : ConvertedIndex, byte : ConvertedByte, read : OutOfBoundsRead]

\* The library sketches on NaN: mode, gain, then the effect at index ub.idx.
LibraryEffectNaN(arr, minGain, maxGain, ub) ==
  <<ModeW(MODE_INTERNAL_TRIGGER), GainW(Constrain((ub.byte + minGain) % 256, minGain, maxGain))>>
  \o (IF ub.idx = SEQUENCE_TRIGGER_INDEX THEN ComplexSequence
      ELSE IF ub.idx \in 0..(Len(arr) - 1) THEN SingleEffect(arr[ub.idx + 1])
      ELSE IF ub.read = -1 THEN <<>>
      ELSE SingleEffect(ub.read))

\* handleRouterOscInput: the core function of each sketch on a NaN argument.
ProcessUpdateNaN(v, run, rt, last, t, ub) ==
  CASE v \in {"blended", "rumble"} ->
         [run |-> TRUE, rt |-> TRUE, last |-> t,
          w |-> (IF ~rt THEN <<ModeW(DRV2605_MODE_REALTIME), StopW>> ELSE <<>>)
                \o <<Rtp(ub.byte)>>]
    [] v = "router" ->
         [run |-> TRUE, rt |-> rt, last |-> t,
          w |-> (IF ~run THEN <<ModeW(DRV2605_MODE_REALTIME)>> ELSE <<>>) \o <<Rtp(ub.byte)>>]
    [] v = "zones" ->
         [run |-> run, rt |-> rt, last |-> last,
          w |-> LibraryEffectNaN(IMPACT_EFFECT_ARRAY, MIN_GAIN_VALUE, MAX_GAIN_VALUE, ub)]
    [] v = "expressive" ->
         [run |-> run, rt |-> rt, last |-> last,
          w |-> LibraryEffectNaN(MAX_EFFECT_ARRAY, MIN_GAIN, MAX_GAIN, ub)]
    [] v = "amplitude" ->
         [run |-> run, rt |-> rt, last |-> last,
          w |-> LibraryEffectNaN(MAX_EFFECT_ARRAY, MIN_AMP_SCALE, MAX_AMP_SCALE, ub)]
    [] v = "lowlevel" ->
         [run |-> run, rt |-> rt, last |-> last,
          w |-> LibraryEffectNaN(MAX_EFFECT_ARRAY, MIN_GAIN_VALUE, MAX_GAIN_VALUE, ub)]

\* setup(): the writes that leave the chip idle, and the boot haptics of the
\* router client (boot sequence, then the WiFi result buzz).
SetupWrites(v, wifiOk, g) ==
  CASE v \in {"zones", "lowlevel"} -> <<ModeW(0), GainW(0), ModeW(MODE_STANDBY)>>
    [] v = "amplitude" -> <<GainW(0), ModeW(0)>>
    [] v = "router" -> <<ModeW(0)>> \o hapticSequence(FALSE, 3, g).w
                       \o hapticSequence(FALSE, IF wifiOk THEN 2 ELSE 5, g).w
    [] OTHER -> <<ModeW(0)>>

\* delay() inside setup(): hapticSequence(3,100), then (2,75) or (5,50).
SetupDelayMs(v, wifiOk) ==
  IF v = "router" THEN 5 * 100 + (IF wifiOk THEN 3 * 75 ELSE 9 * 50) ELSE 0

\* The order of the handlers in loop().
FirstPc(v) == IF v = "router" THEN "web" ELSE "osc"
NextPc(v, p) ==
  CASE v \in {"blended", "rumble"} ->
         (CASE p = "osc" -> "timeout" [] p = "timeout" -> "web" [] p = "web" -> "osc")
    [] v = "router" ->
         (CASE p = "web" -> "osc" [] p = "osc" -> "timeout" [] p = "timeout" -> "web")
    [] OTHER -> (CASE p = "osc" -> "web" [] p = "web" -> "osc")

\* newGamma >= 0.5f && newGamma <= 6.0f (both false for NaN).
GammaInRange(x) == x # NaN /\ x >= 5 /\ x <= 60

\* handleConfigAction(), action == "set_gamma": the exponent kept (tenths).
handleSetGamma(gamma, newGamma) ==
  IF GammaInRange(newGamma) THEN newGamma ELSE gamma

\* handleConfigAction(), action == "set_gamma": the EEPROM after the request
\* and the status of the response.
saveGammaToEEPROM(e, newGamma) ==
  IF GammaInRange(newGamma) THEN [flag |-> TRUE, gamma |-> newGamma] ELSE e
SetGammaStatus(newGamma) == IF GammaInRange(newGamma) THEN 200 ELSE 400

\* Mutant of loadGammaFromEEPROM: the stored float is taken as it is.
loadGammaFromEEPROM_Unchecked(e, gamma) ==
  IF e.flag THEN e.gamma ELSE gamma

\* setup(): loadGammaFromEEPROM, the exponent after boot.
loadGammaFromEEPROM(e, gamma) ==
  IF e.flag THEN (IF GammaInRange(e.gamma) THEN e.gamma ELSE GAMMA_DEFAULT) ELSE gamma

\* ------------------------------------------------------------------ state
VARIABLES
  variant,          \* the sketch that runs
  pc,               \* "setup", or the next handler of loop(): "osc", "timeout", "web"
  now,              \* millis()
  t0,               \* millis() when loop() first ran
  linkUp,           \* the sender still delivers intensity updates
  isMotorRunning,
  isInRealtimeMode,
  lastReceivedMs,
  GAMMA,            \* in tenths
  drv,              \* the chip as seen on the bus (ApplyWrite)
  writes,           \* the writes the last handler issued
  lastOp,           \* the last step taken
  lastRaw,          \* the raw intensity of the last update (0 for other steps)
  pre,              \* flags, mode and standbyVia before the last step
  standbyVia,       \* how the machine last became idle: "boot", "timeout", "other"
  eeprom,           \* the gamma flag and the gamma float kept in EEPROM
  status,           \* the HTTP status of the response of the last step (0: none)
  delivered         \* the packets of a scenario stream delivered so far

vars == <<variant, pc, now, t0, linkUp, isMotorRunning, isInRealtimeMode, lastReceivedMs,
          GAMMA, drv, writes, lastOp, lastRaw, pre, standbyVia, eeprom, status, delivered>>

Snapshot ==
  [run |-> isMotorRunning, rt |-> isInRealtimeMode, mode |-> drv.mode,
   last |-> lastReceivedMs, via |-> standbyVia]

\* The state after construction: the globals' initializers, the chip in its
\* reset state (standby, amplitude register 0), setup() not yet run; e is what
\* the EEPROM holds.
Boot(e) ==
  /\ variant \in Variants
  /\ pc = "setup"
  /\ now = 0
  /\ t0 = 0
  /\ linkUp = TRUE
  /\ isMotorRunning = FALSE
  /\ isInRealtimeMode = FALSE
  /\ lastReceivedMs = 0
  /\ GAMMA = GAMMA_DEFAULT
  /\ drv = [mode |-> MODE_STANDBY, rtp |-> 0, zeroRun |-> 0, exitZeros |-> -1,
            entryRtp |-> -1, entryBracket |-> "none", nzSinceEntry |-> FALSE]
  /\ writes = <<>>
  /\ lastOp = "init"
  /\ lastRaw = 0
  /\ pre = [run |-> FALSE, rt |-> FALSE, mode |-> MODE_STANDBY, last |-> 0, via |-> "boot"]
  /\ standbyVia = "boot"
  /\ eeprom = e
  /\ status = 0
  /\ delivered = <<>>

\* A device whose EEPROM is blank.
Init == Boot(BlankEeprom)

\* A handler's result r = [run, rt, last, w] takes effect; the step is op.
Commit(op, raw, r) ==
  /\ isMotorRunning' = r.run
  /\ isInRealtimeMode' = r.rt
  /\ lastReceivedMs' = r.last
  /\ writes' = r.w
  /\ drv' = Replay(drv, r.w)
  /\ lastOp' = op
  /\ lastRaw' = raw
  /\ pre' = Snapshot
  /\ standbyVia' = IF op = "timeout" THEN (IF r.w # <<>> THEN "timeout" ELSE standbyVia)
                   ELSE IF op \in {"update", "test"} THEN "other"
                   ELSE standbyVia

Idle == [run |-> isMotorRunning, rt |-> isInRealtimeMode, last |-> lastReceivedMs, w |-> <<>>]

\* Requests (updates, web actions) arrive during the first MaxUpdateMs of loop().
Accepting == now <= t0 + MaxUpdateMs

\* The clock stops once the guard had time to fire after the last update.
ClockCap == t0 + MaxUpdateMs + REALTIME_TIMEOUT_MS + 1

\* ---------------------------------------------------------------- actions
\* setup(): chip initialisation and, in the router client, the boot haptics.
Setup ==
  /\ pc = "setup"
  /\ \E wifiOk \in BOOLEAN :
       /\ Commit("setup", 0,
                 [run |-> FALSE, rt |-> FALSE, last |-> lastReceivedMs,
                  w |-> SetupWrites(variant, wifiOk, GAMMA)])
       /\ now' = now + SetupDelayMs(variant, wifiOk)
       /\ t0' = now + SetupDelayMs(variant, wifiOk)
  /\ GAMMA' = IF variant \in RealtimeVariants THEN loadGammaFromEEPROM(eeprom, GAMMA) ELSE GAMMA
  /\ pc' = FirstPc(variant)
  /\ status' = 0
  /\ UNCHANGED <<variant, linkUp, eeprom, delivered>>

\* handleRouterOscInput() with a packet carrying a float intensity.
OscUpdate ==
  /\ pc = "osc"
  /\ linkUp
  /\ Accepting
  /\ \E raw \in RawInputs :
       Commit("update", raw,
              ProcessUpdate(variant, isMotorRunning, isInRealtimeMode, lastReceivedMs,
                            raw, now, GAMMA))
  /\ pc' = NextPc(variant, pc)
  /\ status' = 0
  /\ UNCHANGED <<variant, now, t0, linkUp, GAMMA, eeprom, delivered>>

\* handleRouterOscInput() with no packet waiting.
OscNoPacket ==
  /\ pc = "osc"
  /\ Commit("nopacket", 0, Idle)
  /\ pc' = NextPc(variant, pc)
  /\ status' = 0
  /\ UNCHANGED <<variant, now, t0, linkUp, GAMMA, eeprom, delivered>>

\* checkRealtimeTimeout().
CheckTimeout ==
  /\ pc = "timeout"
  /\ Commit("timeout", 0,
            ProcessTimeout(variant, isMotorRunning, isInRealtimeMode, lastReceivedMs, now))
  /\ pc' = NextPc(variant, pc)
  /\ status' = 0
  /\ UNCHANGED <<variant, now, t0, linkUp, GAMMA, eeprom, delivered>>

\* httpServer.handleClient() with no request waiting.
WebIdle ==
  /\ pc = "web"
  /\ Commit("webidle", 0, Idle)
  /\ pc' = NextPc(variant, pc)
  /\ status' = 0
  /\ UNCHANGED <<variant, now, t0, linkUp, GAMMA, eeprom, delivered>>

\* httpServer.handleClient(): POST /action, action=test (the rumble ramp).
WebTest ==
  /\ pc = "web"
  /\ variant \in FlaggedVariants
  /\ Accepting
  /\ Commit("test", 0, handleConfigActionTest(isMotorRunning, isInRealtimeMode, lastReceivedMs))
  /\ now' = now + TestRampMs
  /\ pc' = NextPc(variant, pc)
  /\ status' = 200
  /\ UNCHANGED <<variant, t0, linkUp, GAMMA, eeprom, delivered>>

\* httpServer.handleClient(): POST /action, action=set_gamma.
WebSetGamma ==
  /\ pc = "web"
  /\ variant \in RealtimeVariants
  /\ Accepting
  /\ \E newGamma \in GammaRequests :
       /\ GAMMA' = handleSetGamma(GAMMA, newGamma)
       /\ eeprom' = saveGammaToEEPROM(eeprom, newGamma)
       /\ status' = SetGammaStatus(newGamma)
  /\ Commit("setgamma", 0, Idle)
  /\ pc' = NextPc(variant, pc)
  /\ UNCHANGED <<variant, now, t0, linkUp, delivered>>

\* Time passes between two iterations of loop().
AdvanceClock ==
  /\ pc = FirstPc(variant)
  /\ now < ClockCap
  /\ \E d \in {250, 251} : now' = now + d
  /\ lastOp' = "advance"
  /\ lastRaw' = 0
  /\ writes' = <<>>
  /\ pre' = Snapshot
  /\ status' = 0
  /\ UNCHANGED <<variant, pc, t0, linkUp, isMotorRunning, isInRealtimeMode, lastReceivedMs,
                 GAMMA, drv, standbyVia, eeprom, delivered>>

\* The sender goes away: no update arrives any more.
SignalLoss ==
  /\ pc = FirstPc(variant)
  /\ linkUp
  /\ linkUp' = FALSE
  /\ lastOp' = "signalloss"
  /\ lastRaw' = 0
  /\ writes' = <<>>
  /\ pre' = Snapshot
  /\ status' = 0
  /\ UNCHANGED <<variant, pc, now, t0, isMotorRunning, isInRealtimeMode, lastReceivedMs,
                 GAMMA, drv, standbyVia, eeprom, delivered>>

\* The time at which the sender comes back after weeks of silence: 300 ms
\* before millis() wraps to 0.
WrapEve == 0 - 300

\* The sender comes back weeks after the guard has stopped the motor, just
\* before millis() wraps (nothing but millis() changes while loop() runs with
\* no packet, no request and the motor stopped).
Resume ==
  /\ pc = FirstPc(variant)
  /\ variant \in RealtimeVariants
  /\ standbyVia = "timeout"
  /\ ~Accepting
  /\ t0 >= 0
  /\ now' = WrapEve
  /\ t0' = WrapEve
  /\ linkUp' = TRUE
  /\ lastOp' = "resume"
  /\ lastRaw' = 0
  /\ writes' = <<>>
  /\ pre' = Snapshot
  /\ status' = 0
  /\ UNCHANGED <<variant, pc, isMotorRunning, isInRealtimeMode, lastReceivedMs,
                 GAMMA, drv, standbyVia, eeprom, delivered>>

\* One handler of loop() (or setup()) runs.
LoopStep == Setup \/ OscUpdate \/ OscNoPacket \/ CheckTimeout \/ WebIdle \/ WebTest \/ WebSetGamma

Next == LoopStep \/ AdvanceClock \/ SignalLoss

Spec == Init /\ [][Next]_vars

\* loop() with a sender that may come back after a timeout, possibly across
\* the wrap of millis().
GuardNext == Next \/ Resume
GuardSpec == Init /\ [][GuardNext]_vars

\* loop() never stops running and the clock never stops (up to ClockCap).
FairSpec == Spec /\ WF_vars(LoopStep) /\ SF_vars(AdvanceClock)

\* ------------------------------------------------------- configuration
\* The device is switched off and on again: the globals and the chip are back
\* in their initial state, the EEPROM keeps what it holds.
PowerCycle ==
  /\ pc # "setup"
  /\ pc' = "setup"
  /\ now' = 0
  /\ t0' = 0
  /\ linkUp' = TRUE
  /\ isMotorRunning' = FALSE
  /\ isInRealtimeMode' = FALSE
  /\ lastReceivedMs' = 0
  /\ GAMMA' = GAMMA_DEFAULT
  /\ drv' = [mode |-> MODE_STANDBY, rtp |-> 0, zeroRun |-> 0, exitZeros |-> -1,
             entryRtp |-> -1, entryBracket |-> "none", nzSinceEntry |-> FALSE]
  /\ writes' = <<>>
  /\ lastOp' = "powercycle"
  /\ lastRaw' = 0
  /\ pre' = [run |-> FALSE, rt |-> FALSE, mode |-> MODE_STANDBY, last |-> 0, via |-> "boot"]
  /\ standbyVia' = "boot"
  /\ status' = 0
  /\ delivered' = <<>>
  /\ UNCHANGED <<variant, eeprom>>

ConfigNext ==
  Setup \/ OscUpdate \/ OscNoPacket \/ CheckTimeout \/ WebIdle \/ WebSetGamma \/ PowerCycle

\* A device with any EEPROM contents: boot, updates, set_gamma requests and
\* power cycles.
ConfigInit == \E e \in EepromContents : Boot(e)
ConfigSpec == ConfigInit /\ [][ConfigNext]_vars

\* ------------------------------------------------------ scenario streams
\* handleRouterOscInput() with the next packet of a stream: the argument is
\* converted and handed to the core function.
OscStream ==
  /\ pc = "osc"
  /\ Accepting
  /\ \E st \in Streams :
       /\ Len(delivered) < Len(st)
       /\ delivered = SubSeq(st, 1, Len(delivered))
       /\ LET a == st[Len(delivered) + 1]
          IN  /\ delivered' = Append(delivered, a)
              /\ IF AcceptsArg(variant, a)
                 THEN Commit("update", ArgIntensity(a),
                             ProcessUpdate(variant, isMotorRunning, isInRealtimeMode,
                                           lastReceivedMs, ArgIntensity(a), now, GAMMA))
                 ELSE Commit("ignored", 0, Idle)
  /\ pc' = NextPc(variant, pc)
  /\ status' = 0
  /\ UNCHANGED <<variant, now, t0, linkUp, GAMMA, eeprom>>

StreamStep == Setup \/ OscStream \/ OscNoPacket \/ CheckTimeout \/ WebIdle

StreamNext == StreamStep \/ AdvanceClock

\* One stream is delivered, packet by packet, while loop() runs.
StreamSpec == Init /\ [][StreamNext]_vars

\* loop() never stops running and the clock never stops (up to ClockCap).
FairStreamSpec == StreamSpec /\ WF_vars(StreamStep) /\ SF_vars(AdvanceClock)

\* ------------------------------------------- the intensity mapping alone
\* The inputs of the mapping: every GridStep-th ten-thousandth of [0, 1], the
\* neighbours of the threshold (plain and inverted), the inputs whose
\* normalized intensity is exactly 0.33 and 0.66, and two out-of-range values.
ZoneBoundaryInput(percent) == MIN_INTENSITY_THRESHOLD + (percent * NormalizedDen) \div 100
IntensityGrid ==
  {k * GridStep : k \in 0..(SCALE \div GridStep)}
  \cup {-2000, 0, SCALE, SCALE + 5000}
  \cup {MIN_INTENSITY_THRESHOLD - 1, MIN_INTENSITY_THRESHOLD, MIN_INTENSITY_THRESHOLD + 1}
  \cup {SCALE - MIN_INTENSITY_THRESHOLD - 1, SCALE - MIN_INTENSITY_THRESHOLD,
        SCALE - MIN_INTENSITY_THRESHOLD + 1}
  \cup {ZoneBoundaryInput(33), ZoneBoundaryInput(33) + 1,
        ZoneBoundaryInput(66), ZoneBoundaryInput(66) + 1}

\* An earlier update, processed right after setup().
MapHistory ==
  /\ lastOp = "setup"
  /\ \E raw \in RawInputs :
       Commit("update", raw,
              ProcessUpdate(variant, isMotorRunning, isInRealtimeMode, lastReceivedMs,
                            raw, now, GAMMA))
  /\ status' = 0
  /\ UNCHANGED <<variant, pc, now, t0, linkUp, GAMMA, eeprom, delivered>>

\* handleRouterOscInput() with a float intensity of the grid: the update
\* whose writes are examined.
MapUpdate ==
  /\ lastOp \in {"setup", "update"}
  /\ \E raw \in IntensityGrid :
       Commit("probe", raw,
              ProcessUpdate(variant, isMotorRunning, isInRealtimeMode, lastReceivedMs,
                            raw, now, GAMMA))
  /\ status' = 0
  /\ UNCHANGED <<variant, pc, now, t0, linkUp, GAMMA, eeprom, delivered>>

\* handleRouterOscInput() with a float argument that is NaN.
MapNaN ==
  /\ lastOp \in {"setup", "update"}
  /\ \E ub \in ConversionOutcomes :
       Commit("nan", 0,
              ProcessUpdateNaN(variant, isMotorRunning, isInRealtimeMode, lastReceivedMs,
                               now, ub))
  /\ status' = 0
  /\ UNCHANGED <<variant, pc, now, t0, linkUp, GAMMA, eeprom, delivered>>

\* runTestWaveform() as the web test calls it, with any gain_percent.
TestPercents == 0..100
MapTest ==
  /\ lastOp \in {"setup", "update"}
  /\ variant \in TestVariants
  /\ \E gain_percent \in TestPercents :
       Commit("testwave", gain_percent,
              [run |-> isMotorRunning, rt |-> isInRealtimeMode, last |-> lastReceivedMs,
               w |-> runTestWaveform(variant, MAX_EFFECT_ARRAY[1], gain_percent)])
  /\ status' = 0
  /\ UNCHANGED <<variant, pc, now, t0, linkUp, GAMMA, eeprom, delivered>>

MapNext == Setup \/ MapHistory \/ MapUpdate \/ MapNaN \/ MapTest

\* setup(), at most one earlier update, then one update of the grid (or NaN).
MapSpec == Init /\ [][MapNext]_vars

TypeOK ==
  /\ variant \in Variants
  /\ pc \in {"setup", "osc", "timeout", "web"}
  /\ isMotorRunning \in BOOLEAN
  /\ isInRealtimeMode \in BOOLEAN
  /\ GAMMA \in Gammas
  /\ lastReceivedMs <= now

\* ------------------------------------------------------------------ claims
Realtime == drv.mode = DRV2605_MODE_REALTIME
InStandby == drv.mode = StandbyMode(variant) /\ ~isMotorRunning /\ ~isInRealtimeMode

\* The last step was a tick of checkRealtimeTimeout that found the motor
\* running in Realtime mode with more than REALTIME_TIMEOUT_MS elapsed.
TimeoutObserved ==
  /\ variant \in RealtimeVariants
  /\ lastOp = "timeout"
  /\ pre.run
  /\ pre.mode = DRV2605_MODE_REALTIME
  /\ Exceeds(ElapsedMs(now, pre.last), REALTIME_TIMEOUT_MS)

C1_TickEffect ==
  TimeoutObserved =>
    /\ writes = <<Rtp(0), ModeW(0)>>
    /\ InStandby
    /\ drv.rtp = 0

\* C1: in the realtime sketches a tick of checkRealtimeTimeout that observes
\* now - lastReceivedMs > REALTIME_TIMEOUT_MS while the motor runs in Realtime
\* mode writes amplitude 0, sets the mode to Standby and clears the flags;
\* hence, once updates have stopped and ticks keep running, a machine in
\* Realtime mode eventually reaches Standby without any Stop update.
C1_TimeoutForcesStandby ==
  /\ []C1_TickEffect
  /\ ((~linkUp /\ Realtime) ~> InStandby)

C1_Witness == TimeoutObserved /\ ~linkUp /\ InStandby /\ lastRaw = 0 /\ standbyVia = "timeout"

\* The last step was an intensity update.
Updated == lastOp = "update"
BelowThreshold == Updated /\ EffectiveIntensity(variant, lastRaw) < MIN_INTENSITY_THRESHOLD

\* C2 as stated: once updates have stopped the mode register eventually
\* holds Standby, whichever mode the last update left.
C2_Original == (~linkUp) ~> (drv.mode = StandbyMode(variant))

\* C2 (amended): once updates have stopped, the machine eventually is out of
\* Realtime mode for good; a mode register that is not in Realtime mode (Standby,
\* or the internal-trigger mode left by a library effect or a click) is changed
\* by no later tick, only by the web test ramp.
C2_SignalLossLeavesRealtimeOnly ==
  /\ (~linkUp) ~> [](~Realtime)
  /\ [][(~linkUp /\ ~Realtime /\ lastOp' # "test") => drv'.mode = drv.mode]_vars

C2_Witness ==
  /\ ~linkUp
  /\ drv.mode = MODE_INTERNAL_TRIGGER
  /\ now >= ClockCap
  /\ lastOp \in {"timeout", "webidle"}

\* C3 as stated: every mode write that left Realtime mode was preceded by
\* exactly one zero-amplitude write.
C3_Original == drv.exitZeros \in {-1, 1}

\* C3 (amended): every mode write that leaves Realtime mode is preceded by at
\* least one zero-amplitude write after the last non-zero amplitude, and the
\* amplitude register holds 0 whenever the mode is not Realtime.
C3_ZeroBeforeLeavingRealtime ==
  /\ drv.exitZeros # 0
  /\ (~Realtime => drv.rtp = 0)

C3_Witness ==
  /\ Updated
  /\ pre.mode = DRV2605_MODE_REALTIME
  /\ ~Realtime
  /\ drv.exitZeros = 2

\* The writes ws, issued from mode register value mode on, keep amplitude
\* writes inside Realtime mode and waveform loads and triggers outside it.
RECURSIVE WritesFitMode(_, _)
WritesFitMode(mode, ws) ==
  IF ws = <<>>
  THEN TRUE
  ELSE /\ (Head(ws).op = "setRealtimeValue" => mode = DRV2605_MODE_REALTIME)
       /\ (Head(ws).op \in {"setWaveform", "go"} => mode # DRV2605_MODE_REALTIME)
       /\ WritesFitMode(IF Head(ws).op = "setMode" THEN Head(ws).a ELSE mode, Tail(ws))

\* C4: in the blended sketch every setRealtimeValue is issued while the mode
\* register holds Realtime and every setWaveform / go while it does not, in
\* every handler (updates, timeout ticks, the web test ramp, setup).
C4_WritesMatchMode ==
  variant = "blended" =>
    /\ WritesFitMode(pre.mode, writes)
    /\ (isInRealtimeMode <=> Realtime)

C4_Witness ==
  /\ variant = "blended"
  /\ Updated
  /\ pre.mode = DRV2605_MODE_REALTIME
  /\ drv.mode = MODE_INTERNAL_TRIGGER
  /\ writes[Len(writes)] = GoW

\* The last update switched the blended or the rumble sketch into Realtime mode.
EntersRealtime ==
  /\ Updated
  /\ variant \in FlaggedVariants
  /\ pre.mode # DRV2605_MODE_REALTIME
  /\ Realtime

\* C5 as stated: the stop of the waveform sequence is issued before the mode
\* write that enters Realtime.
C5_Original ==
  EntersRealtime =>
    \E i, j \in 1..Len(writes) :
      i < j /\ writes[i] = StopW /\ writes[j] = ModeW(DRV2605_MODE_REALTIME)

\* C5 (amended): on entering Realtime mode from Standby or from library
\* playback the stop of the waveform sequence is issued after the mode write
\* and before the first amplitude write.
C5_StopAfterModeWrite ==
  EntersRealtime =>
    /\ Len(writes) = 3
    /\ writes[1] = ModeW(DRV2605_MODE_REALTIME)
    /\ writes[2] = StopW
    /\ writes[3].op = "setRealtimeValue"

C5_Witness == EntersRealtime /\ pre.mode = MODE_INTERNAL_TRIGGER /\ pre.run

\* The last update switched a realtime sketch into Realtime mode.
EntersRealtimeByUpdate ==
  /\ Updated
  /\ variant \in RealtimeVariants
  /\ pre.mode # DRV2605_MODE_REALTIME
  /\ Realtime

ZeroWrites == {i \in 1..Len(writes) : writes[i] = Rtp(0)}

\* C7: once the timeout guard has put the machine into Standby, every further
\* step without an update or a web test (ticks of the guard included) leaves
\* it in Standby with both flags false and issues no write; the tick that
\* fires issues one zero-amplitude write.
C7_TimeoutIdempotent ==
  /\ (pre.via = "timeout" /\ lastOp \notin {"update", "test"}) =>
       /\ writes = <<>>
       /\ InStandby
       /\ standbyVia = "timeout"
  /\ lastOp = "timeout" => Cardinality(ZeroWrites) <= 1

C7_Witness ==
  /\ lastOp = "timeout"
  /\ pre.via = "timeout"
  /\ variant = "router"
  /\ Exceeds(ElapsedMs(now, lastReceivedMs), REALTIME_TIMEOUT_MS)
  /\ ~linkUp

\* C8: an update whose effective intensity is below MIN_INTENSITY_THRESHOLD
\* leaves the machine in Standby (mode register at the sketch's Standby value,
\* both flags false) and, in that update, triggers no effect and writes no
\* non-zero amplitude or gain.
C8_BelowThresholdIsStandby ==
  BelowThreshold =>
    /\ InStandby
    /\ \A i \in 1..Len(writes) :
         /\ writes[i].op \notin {"go", "setWaveform"}
         /\ writes[i].op \in {"setRealtimeValue", "setGain"} => writes[i].a = 0

C8_Witness ==
  /\ BelowThreshold
  /\ variant = "zones"
  /\ pre.mode = MODE_INTERNAL_TRIGGER
  /\ drv.mode = MODE_STANDBY

\* The last step issued a stop or standby write.
StopIssued ==
  \E i \in 1..Len(writes) : writes[i] \in {StopW, ModeW(StandbyMode(variant))}

\* C9 as stated: every below-threshold update issues a stop/standby write.
C9_Original == BelowThreshold => StopIssued

\* C9 (amended): every below-threshold update issues a stop/standby write,
\* except in the router client while isMotorRunning is false: there the update
\* issues no write at all (the chip is in Standby with amplitude 0 already).
C9_StopUnlessRouterIdle ==
  BelowThreshold =>
    IF variant = "router" /\ ~pre.run
    THEN writes = <<>> /\ drv.mode = 0 /\ drv.rtp = 0
    ELSE StopIssued

C9_Witness == BelowThreshold /\ variant = "router" /\ ~pre.run /\ pre.via = "other"

\* C10: in the blended sketch a tick of checkRealtimeTimeout that finds the
\* motor running outside Realtime mode (a click was played) changes neither
\* the flags, the timestamp, the exponent nor the chip, and issues no write.
C10_ClickNotTimedOut ==
  [][(variant = "blended" /\ pc = "timeout" /\ isMotorRunning /\ ~isInRealtimeMode) =>
       /\ UNCHANGED <<isMotorRunning, isInRealtimeMode, lastReceivedMs, GAMMA, drv, standbyVia>>
       /\ writes' = <<>>]_vars

C10_Witness ==
  /\ variant = "blended"
  /\ lastOp = "timeout"
  /\ pre.run
  /\ ~pre.rt
  /\ isMotorRunning
  /\ pre.mode = MODE_INTERNAL_TRIGGER
  /\ Exceeds(ElapsedMs(now, lastReceivedMs), REALTIME_TIMEOUT_MS)

\* The last step processed an update of the intensity grid.
Probed == lastOp = "probe"
Effective == EffectiveIntensity(variant, lastRaw)

\* The last step issued the writes of a Stop: it left the machine in Standby,
\* triggered nothing and wrote no non-zero amplitude or gain.
ProducedStop ==
  /\ InStandby
  /\ \A i \in 1..Len(writes) :
       /\ writes[i].op \notin {"go", "setWaveform"}
       /\ writes[i].op \in {"setRealtimeValue", "setGain"} => writes[i].a = 0

\* The last step issued a non-Stop command: an effect was triggered outside
\* Realtime mode, or an amplitude was written in Realtime mode.
ProducedNonStop ==
  /\ writes # <<>>
  /\ \/ ~Realtime /\ writes[Len(writes)] = GoW
     \/ Realtime /\ writes[Len(writes)].op = "setRealtimeValue"

\* The effective intensity is exactly the threshold.  Only the sketches that
\* do not invert the intensity can see it: 1.0f - x is never the float 0.05f
\* (it is the float next above it for x = 0.95f).
DirectVariants == {"router", "zones"}
AtThreshold == variant \in DirectVariants /\ Effective = MIN_INTENSITY_THRESHOLD

\* C11 as stated: an effective intensity equal to the threshold produces Stop,
\* a greater one a non-Stop command.
C11_Original ==
  Probed =>
    /\ AtThreshold => ProducedStop
    /\ Effective > MIN_INTENSITY_THRESHOLD => ProducedNonStop

\* C11 (amended): an effective intensity strictly below the threshold produces
\* Stop; an effective intensity equal to the threshold or greater produces a
\* non-Stop command.
C11_ThresholdIsNonStop ==
  Probed =>
    /\ Effective < MIN_INTENSITY_THRESHOLD => ProducedStop
    /\ Effective >= MIN_INTENSITY_THRESHOLD => ProducedNonStop /\ ~ProducedStop

C11_Witness ==
  /\ Probed
  /\ variant = "zones"
  /\ AtThreshold
  /\ writes = <<ModeW(MODE_INTERNAL_TRIGGER), GainW(MIN_GAIN_VALUE)>>
              \o SingleEffect(PET_EFFECT_ARRAY[1])

\* C12: an update whose intensity is NaN is treated as below threshold: it
\* leaves the machine in Standby, loads and triggers no effect and writes no
\* non-zero gain or amplitude.
C12_NaNIsStop == lastOp = "nan" => ProducedStop

\* What the update of the last step would have done, from the state before
\* it, had its intensity been raw.
UpdateWith(raw) ==
  ProcessUpdate(variant, pre.run, pre.rt, pre.last, raw, now, GAMMA)

\* C13: an out-of-range intensity is clamped to [0, 1] before any use: the
\* writes (and the flags) of an update with an input below 0 are those of
\* input 0, and with an input above 1 those of input 1.
C13_ClampedBeforeUse ==
  Probed =>
    /\ writes = UpdateWith(Constrain(lastRaw, 0, SCALE)).w
    /\ isMotorRunning = UpdateWith(Constrain(lastRaw, 0, SCALE)).run
    /\ lastRaw < 0 => writes = UpdateWith(0).w
    /\ lastRaw > SCALE => writes = UpdateWith(SCALE).w

C13_Witness ==
  /\ Probed
  /\ variant = "router"
  /\ lastRaw > SCALE
  /\ pre.run
  /\ writes = <<Rtp(255)>>

\* The last step processed a grid update that was not below threshold, in
\* the three-zone sketch.
ZoneProbed == Probed /\ variant = "zones" /\ Effective >= MIN_INTENSITY_THRESHOLD
Normalized == NormalizedNum(Effective)
ZoneRank(zone) == CASE zone = "pet" -> 1 [] zone = "force" -> 2 [] zone = "impact" -> 3

\* Normalized intensities to compare with: twentieths of the range and the
\* two zone boundaries with their upper neighbours.
NormalizedSamples ==
  {(k * NormalizedDen) \div 20 : k \in 0..20}
  \cup {(33 * NormalizedDen) \div 100, (33 * NormalizedDen) \div 100 + 1,
        (66 * NormalizedDen) \div 100, (66 * NormalizedDen) \div 100 + 1}

\* The effect index of the last update: roundf(normalizedIntensity * 9).
ZoneEffectIndex == RoundProduct(Normalized, Len(PET_EFFECT_ARRAY) - 1)

\* The effect the last update loaded into the first sequence slot.
LoadedEffect == (CHOOSE i \in 1..Len(writes) : writes[i].op = "setWaveform" /\ writes[i].a = 0)

\* C14: in the three-zone sketch every normalized intensity selects exactly
\* one of Pet, Force, Impact (the effect played comes from that zone's table);
\* the range starts in Pet and ends in Impact, and a greater normalized
\* intensity never selects a weaker zone.
C14_ZonesPartition ==
  /\ ZoneProbed =>
       /\ SelectZone(Normalized) \in {"pet", "force", "impact"}
       /\ \/ writes[LoadedEffect].b
               = ZoneArray(SelectZone(Normalized))[ZoneEffectIndex + 1]
          \/ SelectZone(Normalized) = "impact" /\ writes[LoadedEffect].b = FX_IMPACT_HIT
       /\ \A m \in NormalizedSamples :
            /\ m <= Normalized => ZoneRank(SelectZone(m)) <= ZoneRank(SelectZone(Normalized))
            /\ m >= Normalized => ZoneRank(SelectZone(m)) >= ZoneRank(SelectZone(Normalized))
  /\ Probed => SelectZone(0) = "pet" /\ SelectZone(NormalizedDen) = "impact"

C14_Witness ==
  /\ ZoneProbed
  /\ lastRaw = ZoneBoundaryInput(33) + 1
  /\ SelectZone(Normalized) = "force"
  /\ writes[LoadedEffect].b = FORCE_EFFECT_ARRAY[4]

\* C15: in the three-zone sketch a normalized intensity of exactly 0.33 plays
\* from the Pet table and one of exactly 0.66 from the Force table: a boundary
\* value belongs to the lower zone.
C15_BoundaryBelongsToLowerZone ==
  ZoneProbed =>
    /\ Normalized * 100 = 33 * NormalizedDen =>
         /\ SelectZone(Normalized) = "pet"
         /\ writes[LoadedEffect].b = PET_EFFECT_ARRAY[ZoneEffectIndex + 1]
    /\ Normalized * 100 = 66 * NormalizedDen =>
         /\ SelectZone(Normalized) = "force"
         /\ writes[LoadedEffect].b = FORCE_EFFECT_ARRAY[ZoneEffectIndex + 1]

C15_Witness ==
  /\ ZoneProbed
  /\ lastRaw = ZoneBoundaryInput(66)
  /\ Normalized * 100 = 66 * NormalizedDen
  /\ writes[LoadedEffect] = Wave(0, FORCE_EFFECT_ARRAY[7])

\* The last step processed a grid update that was not below threshold, in a
\* library sketch.
LibraryVariants == {"zones", "expressive", "amplitude", "lowlevel"}
LibraryProbed == Probed /\ variant \in LibraryVariants /\ Effective >= MIN_INTENSITY_THRESHOLD

\* The effect table the last update read, and the index it read it at.
EffectTable == IF variant = "zones" THEN ZoneArray(SelectZone(Normalized)) ELSE MAX_EFFECT_ARRAY
EffectIndex == RoundProduct(Normalized, Len(EffectTable) - 1)

\* The last update loaded the complex sequence.
SequenceLoaded ==
  \E i \in 1..Len(writes) :
    /\ i + 4 = Len(writes)
    /\ ComplexSequence = [k \in 1..5 |-> writes[i + k - 1]]

\* The table a NaN update reads: comparisons with NaN are false, so the
\* three-zone sketch reads the Impact table.
TableOnNaN == IF variant = "zones" THEN IMPACT_EFFECT_ARRAY ELSE MAX_EFFECT_ARRAY

\* C16: for every input that is not below threshold (NaN is not: no
\* comparison with NaN is true) the normalized intensity lies in [0, 1] and
\* the effect index in [0, len - 1]; the effect played is the entry of the
\* selected table at that index (or the complex sequence at the trigger
\* index), never a read outside the table.
C16_IndexWithinTable ==
  /\ LibraryProbed =>
       /\ Normalized \in 0..NormalizedDen
       /\ EffectIndex \in 0..(Len(EffectTable) - 1)
       /\ \/ writes[LoadedEffect].b = EffectTable[EffectIndex + 1] /\ ~SequenceLoaded
          \/ EffectIndex = SEQUENCE_TRIGGER_INDEX /\ SequenceLoaded
  /\ (lastOp = "nan" /\ variant \in LibraryVariants) =>
       \/ SequenceLoaded
       \/ \E i \in 1..Len(writes), k \in 1..Len(TableOnNaN) :
            writes[i] = Wave(0, TableOnNaN[k])

\* The gain range of each library sketch.
MinGainOf(v) ==
  CASE v \in {"zones", "lowlevel"} -> MIN_GAIN_VALUE [] v = "expressive" -> MIN_GAIN [] v = "amplitude" -> MIN_AMP_SCALE
MaxGainOf(v) ==
  CASE v \in {"zones", "lowlevel"} -> MAX_GAIN_VALUE [] v = "expressive" -> MAX_GAIN [] v = "amplitude" -> MAX_AMP_SCALE

\* The gain the last update wrote.
WrittenGain == writes[CHOOSE i \in 1..Len(writes) : writes[i].op = "setGain"].a

\* C17: the gain written with a library effect is
\* round(normalized * (maxGain - minGain)) + minGain and lies in
\* [minGain, maxGain]: minGain at normalized 0, maxGain at normalized 1
\* (20..127, 15..100 and 20..255); the gain written on NaN lies in the range too.
C17_GainFormula ==
  /\ LibraryProbed =>
       /\ WrittenGain
            = RoundProduct(Normalized, MaxGainOf(variant) - MinGainOf(variant)) + MinGainOf(variant)
       /\ WrittenGain \in MinGainOf(variant)..MaxGainOf(variant)
       /\ Normalized = 0 => WrittenGain = MinGainOf(variant)
       /\ Normalized = NormalizedDen => WrittenGain = MaxGainOf(variant)
  /\ (lastOp = "nan" /\ variant \in LibraryVariants) =>
       WrittenGain \in MinGainOf(variant)..MaxGainOf(variant)

C17_Witness ==
  /\ LibraryProbed
  /\ variant = "amplitude"
  /\ Normalized = NormalizedDen
  /\ WrittenGain = MAX_AMP_SCALE

\* The gain a library sketch computes for the normalized intensity n / NormalizedDen.
GainFor(n) == GainOf(n, MinGainOf(variant), MaxGainOf(variant))

\* C18: the gain never decreases as the normalized intensity increases: the
\* gain written is at least the gain of every smaller normalized intensity
\* (the samples and the grid neighbours below) and at most that of every
\* greater one.
C18_GainMonotone ==
  LibraryProbed =>
    /\ WrittenGain = GainFor(Normalized)
    /\ \A m \in NormalizedSamples
                \cup {Constrain(Normalized - 1, 0, NormalizedDen),
                      Constrain(Normalized - GridStep, 0, NormalizedDen),
                      Constrain(Normalized + 1, 0, NormalizedDen),
                      Constrain(Normalized + GridStep, 0, NormalizedDen)} :
         /\ m <= Normalized => GainFor(m) <= WrittenGain
         /\ m >= Normalized => GainFor(m) >= WrittenGain

C18_Witness ==
  /\ LibraryProbed
  /\ variant = "expressive"
  /\ 2 * Normalized = NormalizedDen
  /\ GainFor(0) < WrittenGain
  /\ GainFor(Normalized + GridStep) = WrittenGain + 1

\* The writes that load and trigger the complex sequence, and those of the
\* single effect at the index of the last update.
FullSequence ==
  <<Wave(0, FX_IMPACT_HIT), Wave(1, FX_PAUSE), Wave(2, FX_RESIDUAL_HUM), Wave(3, 0), GoW>>
PlainEntry == <<Wave(0, EffectTable[EffectIndex + 1]), Wave(1, 0), GoW>>
InTopZone == variant = "zones" => SelectZone(Normalized) = "impact"

\* C19: a library update emits the complex sequence (impact hit, pause,
\* residual hum, terminator) exactly when its effect index is the last index
\* of the top zone, and the plain table entry otherwise; normalized intensity
\* 1 always yields the sequence, and no input of the Pet or Force zone does.
C19_SequenceAtTopIndex ==
  LibraryProbed =>
    /\ IF EffectIndex = Len(EffectTable) - 1 /\ InTopZone
       THEN writes = <<ModeW(MODE_INTERNAL_TRIGGER), GainW(WrittenGain)>> \o FullSequence
       ELSE writes = <<ModeW(MODE_INTERNAL_TRIGGER), GainW(WrittenGain)>> \o PlainEntry
    /\ Normalized = NormalizedDen => SequenceLoaded
    /\ ~InTopZone => ~SequenceLoaded
    /\ SequenceLoaded => EffectIndex = SEQUENCE_TRIGGER_INDEX

C19_Witness ==
  /\ LibraryProbed
  /\ variant = "zones"
  /\ Normalized < NormalizedDen
  /\ SelectZone(Normalized) = "impact"
  /\ writes = <<ModeW(MODE_INTERNAL_TRIGGER), GainW(WrittenGain)>> \o FullSequence

\* The writes of every run that processes the input of the last update after
\* setup() alone, with no earlier update; a NaN input has one run for each
\* outcome of its undefined conversions.
FreshRuns ==
  IF lastOp = "nan"
  THEN {ProcessUpdateNaN(variant, FALSE, FALSE, 0, 0, ub).w : ub \in ConversionOutcomes}
  ELSE {ProcessUpdate(variant, FALSE, FALSE, 0, lastRaw, 0, GAMMA_DEFAULT).w}

SingleZoneVariants == {"expressive", "amplitude", "lowlevel"}

\* The last step was the update with the k-th packet of the float stream st,
\* the earlier packets of st having been delivered before it.
Fed(st, k) ==
  /\ Updated
  /\ k <= Len(st)
  /\ delivered = [i \in 1..k |-> F(st[i])]

\* The last update played the single effect at table index idx with a gain in
\* the given third (1: low, 2: mid, 3: high) of the sketch's gain range.
PlayedSingle(idx, third) ==
  /\ Len(writes) = 5
  /\ writes[1] = ModeW(MODE_INTERNAL_TRIGGER)
  /\ writes[2].op = "setGain"
  /\ 3 * (writes[2].a - MinGainOf(variant)) >= (third - 1) * (MaxGainOf(variant) - MinGainOf(variant))
  /\ 3 * (writes[2].a - MinGainOf(variant)) <= third * (MaxGainOf(variant) - MinGainOf(variant))
  /\ SubSeq(writes, 3, 5) = <<Wave(0, MAX_EFFECT_ARRAY[idx + 1]), Wave(1, 0), GoW>>

\* Stop, Stop, effect 4 with mid gain, effect 8 with high gain, Stop.
ExampleResponse(k) ==
  CASE k \in {1, 2, 5} -> ProducedStop
    [] k = 3 -> PlayedSingle(4, 2)
    [] k = 4 -> PlayedSingle(8, 3)

\* C21 as stated: in the single-zone library sketches the raw stream 0.0,
\* 0.02, 0.5, 0.9, 0.0 produces Stop, Stop, the single effect at index 4 with
\* mid gain, the single effect at index 8 with high gain, Stop.
C21_Original ==
  \A k \in 1..Len(ExampleStream) :
    (variant \in SingleZoneVariants /\ Fed(ExampleStream, k)) => ExampleResponse(k)

\* C21 (amended): the single-zone library sketches invert the raw intensity,
\* and it is the stream of effective intensities 0.0, 0.02, 0.5, 0.9, 0.0 (the
\* raw stream 1.0, 0.98, 0.5, 0.1, 1.0) that produces Stop, Stop, the single
\* effect at index 4 with mid gain, the single effect at index 8 with high
\* gain, Stop.
C21_InvertedStreamResponse ==
  \A k \in 1..Len(ExampleStream) :
    (variant \in SingleZoneVariants /\ Fed(Mirror(ExampleStream), k)) => ExampleResponse(k)

C21_Witness ==
  /\ variant = "lowlevel"
  /\ Fed(Mirror(ExampleStream), 5)
  /\ pre.mode = MODE_INTERNAL_TRIGGER
  /\ ProducedStop

\* The last step was the update with the single packet 1.0 (raw), and with
\* the single packet whose effective intensity is 1.0 (raw 0.0 where the
\* sketch inverts).
FullRaw(v) == IF v \in DirectVariants THEN SCALE ELSE 0
SustainedFed == variant \in RealtimeVariants /\ Fed(SustainedStream, 1)
FullDriveFed == variant \in RealtimeVariants /\ Fed(<<FullRaw(variant)>>, 1)
\* That packet is still the only one delivered.
NothingFurther == delivered = <<F(FullRaw(variant))>>
FullAmplitude == writes # <<>> /\ writes[Len(writes)] = Rtp(255) /\ Realtime

\* C22 as stated: in a realtime sketch the update with the raw input 1.0
\* writes the amplitude 255.
C22_Original == SustainedFed => FullAmplitude

\* C22 (amended): in a realtime sketch a single update of effective intensity
\* 1.0 (raw 1.0 in the router client, raw 0.0 in the blended and HD-rumble
\* sketches, which invert) writes the amplitude 255 in Realtime mode; if no
\* further update arrives the timeout guard then stops the motor (amplitude 0,
\* then Standby) on a tick more than REALTIME_TIMEOUT_MS after that update and
\* not before, no 0.0 update having arrived.
C22_FullDriveThenTimeout ==
  /\ [](FullDriveFed => FullAmplitude)
  /\ []((variant \in RealtimeVariants /\ NothingFurther /\ lastOp # "update") =>
          \/ Realtime /\ drv.rtp = 255 /\ writes = <<>>
          \/ /\ InStandby
             /\ standbyVia = "timeout"
             /\ now - lastReceivedMs > REALTIME_TIMEOUT_MS
             /\ lastOp = "timeout" => writes \in {<<>>, <<Rtp(0), ModeW(0)>>})
  /\ FullDriveFed ~> (~NothingFurther \/ (InStandby /\ standbyVia = "timeout"))

C22_Witness ==
  /\ variant = "rumble"
  /\ NothingFurther
  /\ lastOp = "timeout"
  /\ pre.mode = DRV2605_MODE_REALTIME
  /\ writes = <<Rtp(0), ModeW(0)>>
  /\ InStandby

\* The raw streams that give the blended sketch the sequence 0.1, 0.5, 0.1 as
\* effective intensities and as normalized intensities, and the sequence
\* taken as raw intensities.
CrossoverAsEffective == Mirror(CrossoverStream)
CrossoverAsNormalized == Mirror(NormalizedCrossoverStream)
CrossoverReadings == {CrossoverStream, CrossoverAsEffective, CrossoverAsNormalized}
\* The last update was played as a library click, outside Realtime mode.
PlayedClick ==
  /\ ~isInRealtimeMode
  /\ ~Realtime
  /\ Len(writes) >= 3
  /\ SubSeq(writes, Len(writes) - 2, Len(writes)) = <<Wave(0, LRA_SHARP_CLICK), Wave(1, 0), GoW>>
\* The last update was driven in Realtime mode.
DrivenRealtime ==
  /\ isInRealtimeMode
  /\ Realtime
  /\ writes[Len(writes)].op = "setRealtimeValue"

\* C23 as stated: in the blended sketch none of the three updates of the
\* sequence 0.1, 0.5, 0.1 enters Realtime mode (isInRealtimeMode stays false).
C23_Original ==
  \A st \in CrossoverReadings : \A k \in 1..3 :
    (variant = "blended" /\ Fed(st, k)) => ~isInRealtimeMode

\* C23 (amended): in the blended sketch the update 0.5 of the sequence 0.1,
\* 0.5, 0.1 enters Realtime mode, 0.5 being at least WAVEFORM_RTP_THRESHOLD
\* (0.35), whether the values are raw, effective or normalized intensities.
\* As effective or normalized intensities the first and third updates are
\* library clicks (Library, Realtime, Library; the third leaves Realtime after
\* a zero amplitude write); as raw intensities all three are driven in
\* Realtime.  Every above-threshold update whose effective intensity is below
\* 0.35 is a library click that leaves isInRealtimeMode false.
C23_HalfIntensityEntersRealtime ==
  /\ \A st \in CrossoverReadings :
       (variant = "blended" /\ Fed(st, 2)) => DrivenRealtime
  /\ \A st \in {CrossoverAsEffective, CrossoverAsNormalized} : \A k \in {1, 3} :
       (variant = "blended" /\ Fed(st, k)) => PlayedClick
  /\ \A k \in {1, 3} : (variant = "blended" /\ Fed(CrossoverStream, k)) => DrivenRealtime
  /\ (variant = "blended" /\ Fed(CrossoverAsEffective, 3)) =>
       writes = <<Rtp(0), ModeW(1), Wave(0, LRA_SHARP_CLICK), Wave(1, 0), GoW>>
  /\ (variant = "blended" /\ Updated /\ Effective >= MIN_INTENSITY_THRESHOLD
        /\ Effective < WAVEFORM_RTP_THRESHOLD) => PlayedClick

C23_Witness ==
  /\ variant = "blended"
  /\ Fed(CrossoverAsEffective, 3)
  /\ pre.rt
  /\ pre.mode = DRV2605_MODE_REALTIME
  /\ PlayedClick

\* The last step was the update with the single integer packet val.
IntFed(val) == Updated /\ delivered = <<I(val)>>
\* The intensity the percentage / byte reading gives the integer val.
AsPercentage(val) == (val * SCALE) \div 100
AsByte(val) == RoundDiv(val * SCALE, 255)

\* C24: the adapter hands the core a value in [0, 1] for every integer
\* argument: val / 100 for an integer in 0..100 and val / 255 for an integer
\* greater than 100 and at most 255.
C24_IntegerEncodings ==
  \A val \in IntInputs :
    IntFed(val) =>
      /\ lastRaw \in 0..SCALE
      /\ val \in 0..100 => lastRaw = AsPercentage(val)
      /\ val \in 101..255 => lastRaw = AsByte(val)

\* The outcome the claim gives a set_gamma request carrying newGamma.
SetGammaOutcome(newGamma) ==
  IF GammaInRange(newGamma)
  THEN status' = 200 /\ GAMMA' = newGamma /\ eeprom' = [flag |-> TRUE, gamma |-> newGamma]
  ELSE status' = 400 /\ GAMMA' = GAMMA /\ eeprom' = eeprom

\* C25: the gamma exponent is within [0.5, 6.0] in every reachable state; a
\* set_gamma request outside the range (or NaN) is answered with status 400
\* and leaves GAMMA and the EEPROM as they are (one inside the range is stored
\* in both); at boot a flagged EEPROM value inside the range is loaded and one
\* outside it (or NaN) is replaced by the default 2.2.
C25_GammaWithinRange ==
  /\ [](GammaInRange(GAMMA))
  /\ []((lastOp = "setup" /\ variant \in RealtimeVariants) =>
          GAMMA = IF eeprom.flag /\ GammaInRange(eeprom.gamma) THEN eeprom.gamma
                  ELSE GAMMA_DEFAULT)
  /\ [][lastOp' = "setgamma" => \E newGamma \in GammaRequests : SetGammaOutcome(newGamma)]_vars
  /\ [][status' = 400 => (GAMMA' = GAMMA /\ eeprom' = eeprom)]_vars

C25_Witness ==
  /\ variant = "router"
  /\ lastOp = "setup"
  /\ eeprom = [flag |-> TRUE, gamma |-> 61]
  /\ GAMMA = GAMMA_DEFAULT

\* C26: in the realtime sketches lastReceivedMs is the clock value at which
\* the last above-threshold update (click or rumble) was processed: such an
\* update sets it to the clock read in the handler, and a below-threshold
\* update, the timeout check and every other step leave it unchanged.
C26_TimestampAtProcessing ==
  variant \in RealtimeVariants =>
    /\ (Updated /\ Effective >= MIN_INTENSITY_THRESHOLD) => lastReceivedMs = now
    /\ BelowThreshold => lastReceivedMs = pre.last
    /\ lastOp \notin {"init", "update"} => lastReceivedMs = pre.last

C26_Witness ==
  /\ variant = "blended"
  /\ Updated
  /\ Effective >= MIN_INTENSITY_THRESHOLD
  /\ Effective < WAVEFORM_RTP_THRESHOLD
  /\ pre.last < now
  /\ lastReceivedMs = now

\* The last step was an above-threshold update of the grid in the blended sketch.
BlendedProbed == Probed /\ variant = "blended" /\ Effective >= MIN_INTENSITY_THRESHOLD

\* C27: in the blended sketch an above-threshold effective intensity is played
\* as a library click if and only if it is strictly below
\* WAVEFORM_RTP_THRESHOLD (0.35) and is driven in Realtime otherwise; exactly
\* 0.35 is driven in Realtime, and so is every intensity from 0.35 up to the
\* lower zone boundary (normalized 0.33): the zones play no part.
C27_CrossoverAtThreshold ==
  BlendedProbed =>
    /\ Effective < WAVEFORM_RTP_THRESHOLD <=> PlayedClick
    /\ Effective >= WAVEFORM_RTP_THRESHOLD <=> DrivenRealtime
    /\ (Effective >= WAVEFORM_RTP_THRESHOLD /\ SelectZone(Normalized) = "pet") => DrivenRealtime

C27_Witness ==
  /\ BlendedProbed
  /\ Effective = WAVEFORM_RTP_THRESHOLD
  /\ SelectZone(Normalized) = "pet"
  /\ ~pre.rt
  /\ DrivenRealtime

\* The waveform sequencer, slots 0..LastSlot (the handlers write slots 0..3;
\* the slots beyond are bounded by LastSlot).  What the slots may hold before
\* a handler runs (an effect or the terminator in each), the slots when the
\* handler's go() is reached, and the sequence the chip then plays: slots 0,
\* 1, .. up to the first terminator 0.
LastSlot == 4
PriorSlots == [0..LastSlot -> {0, FX_RESIDUAL_HUM}]
RECURSIVE SlotsAtGo(_, _)
SlotsAtGo(slots, ws) ==
  IF ws = <<>> \/ Head(ws) = GoW
  THEN slots
  ELSE SlotsAtGo(IF Head(ws).op = "setWaveform"
                 THEN [slots EXCEPT ![Head(ws).a] = Head(ws).b]
                 ELSE slots,
                 Tail(ws))
PlayedSequence(slots) ==
  LET ends == {i \in 0..LastSlot : slots[i] = 0}
      n == IF ends = {} THEN LastSlot + 1 ELSE CHOOSE i \in ends : \A j \in ends : i <= j
  IN  [i \in 1..n |-> slots[i - 1]]

\* The last step was an update that triggered library playback, and the
\* effects it was to play.
PlaybackUpdate ==
  /\ lastOp \in {"update", "probe"}
  /\ \E i \in 1..Len(writes) : writes[i] = GoW
Commanded ==
  IF variant = "blended" THEN <<LRA_SHARP_CLICK>>
  ELSE IF EffectIndex = SEQUENCE_TRIGGER_INDEX /\ InTopZone
  THEN <<FX_IMPACT_HIT, FX_PAUSE, FX_RESIDUAL_HUM>>
  ELSE <<EffectTable[EffectIndex + 1]>>
SlotWrites == SelectSeq(writes, LAMBDA w : w.op = "setWaveform")

\* C28: for every update that triggers library playback the sequence the chip
\* plays equals the commanded one whatever the slots held before: the slots
\* written are 0..n-1 with the n commanded effects and slot n with the
\* terminator 0 (n = 1 or 3), and go() is the last write, after all of them.
C28_SlotsMatchCommand ==
  PlaybackUpdate =>
    /\ writes[Len(writes)] = GoW
    /\ \A i \in 1..(Len(writes) - 1) : writes[i] # GoW
    /\ SlotWrites = [i \in 1..(Len(Commanded) + 1) |->
                       Wave(i - 1, IF i <= Len(Commanded) THEN Commanded[i] ELSE 0)]
    /\ \A prior \in PriorSlots : PlayedSequence(SlotsAtGo(prior, writes)) = Commanded

C28_Witness ==
  /\ PlaybackUpdate
  /\ variant = "expressive"
  /\ Commanded = <<MAX_EFFECT_ARRAY[5]>>
  /\ pre.mode = MODE_INTERNAL_TRIGGER
  /\ SlotWrites = <<Wave(0, FX_RESIDUAL_HUM), Wave(1, 0)>>

\* The flag that tracks Realtime mode: isInRealtimeMode in the blended and
\* HD-rumble sketches, isMotorRunning in the router client.
RealtimeFlag == IF variant = "router" THEN isMotorRunning ELSE isInRealtimeMode
\* The pulse counts hapticSequence is called with, and what a call at the
\* current state would leave: the flag and the chip.
PulseCounts == {2, 3, 5}
AfterHaptic(pulses) ==
  LET h == hapticSequence(isMotorRunning, pulses, GAMMA)
  IN  [run |-> h.run, mode |-> Replay(drv, h.w).mode]

\* C29: once setup() has run, between any two handlers of the blended, the
\* HD-rumble and the router sketch the chip's last mode write is Realtime
\* exactly when the tracking flag is set (isInRealtimeMode, in the router
\* client isMotorRunning); and a hapticSequence call made in the router client
\* at that point leaves the two in agreement again.
C29_FlagTracksMode ==
  (variant \in RealtimeVariants /\ pc # "setup") =>
    /\ Realtime <=> RealtimeFlag
    /\ variant = "router" =>
         \A pulses \in PulseCounts :
           (AfterHaptic(pulses).mode = DRV2605_MODE_REALTIME) <=> AfterHaptic(pulses).run

C29_Witness ==
  /\ variant = "blended"
  /\ lastOp = "test"
  /\ pre.rt /\ pre.mode = DRV2605_MODE_REALTIME
  /\ ~isInRealtimeMode /\ ~Realtime

\* C30: in the blended and the HD-rumble sketch, between any two handlers,
\* isInRealtimeMode implies isMotorRunning.
C30_RealtimeImpliesRunning ==
  variant \in FlaggedVariants => (isInRealtimeMode => isMotorRunning)

C30_Witness ==
  /\ variant = "rumble"
  /\ lastOp = "timeout"
  /\ pre.run /\ pre.rt
  /\ ~isMotorRunning /\ ~isInRealtimeMode

\* The one packet delivered so far carried an integer outside 0..255 or an
\* argument that is neither a float nor an integer, and the last step handled
\* it.
MalformedArg(a) == a = OtherArg \/ (a.type = "i" /\ a.v \notin 0..255)
MalformedFed ==
  /\ lastOp \in {"update", "ignored"}
  /\ Len(delivered) = 1
  /\ MalformedArg(delivered[1])

\* C31: a packet on the intensity address whose argument is an integer outside
\* 0..255, or neither a float nor an integer, triggers no effect and writes no
\* non-zero gain or amplitude: it results in Stop or in no write at all.
C31_MalformedNeverDrives ==
  MalformedFed =>
    \A i \in 1..Len(writes) :
      /\ writes[i] # GoW
      /\ writes[i].op \in {"setRealtimeValue", "setGain"} => writes[i].a = 0

\* The entries of the three zone tables: a zone and an index 0..9.
ZoneNames == {"pet", "force", "impact"}
ZoneEntries == ZoneNames \X (0..(Len(PET_EFFECT_ARRAY) - 1))
\* The three-zone handler, given the float raw, plays the entry e: it selects
\* e's zone and index and loads that table entry into slot 0.
PlaysEntry(raw, e) ==
  LET intensity == Constrain(raw, 0, SCALE)
      n == NormalizedNum(intensity)
      ws == setMotorLibraryEffectZones(FALSE, FALSE, 0, raw, 0, GAMMA_DEFAULT).w
  IN  /\ intensity >= MIN_INTENSITY_THRESHOLD
      /\ SelectZone(n) = e[1]
      /\ RoundProduct(n, Len(ZoneArray(e[1])) - 1) = e[2]
      /\ \E i \in 1..Len(ws) : ws[i] = Wave(0, ZoneArray(e[1])[e[2] + 1])
\* The entries some intensity of the grid plays.
PlayedEntries == {e \in ZoneEntries : \E raw \in IntensityGrid : PlaysEntry(raw, e)}
\* The entry the last update of the three-zone sketch selected.
SelectedEntry == <<SelectZone(Normalized), ZoneEffectIndex>>

\* C32: in the three-zone sketch, for every zone and every index 0..9 of its
\* table some input intensity plays that entry, except the last entry of the
\* Impact table (the complex sequence is played in its place); so does the
\* entry selected by any update.
C32_EveryEntryReachable ==
  ZoneProbed =>
    /\ SelectedEntry # <<"impact", SEQUENCE_TRIGGER_INDEX>> => PlaysEntry(lastRaw, SelectedEntry)
    /\ \A e \in ZoneEntries : e # <<"impact", SEQUENCE_TRIGGER_INDEX>> => e \in PlayedEntries

\* The last update asked for continuous drive: at or above the click/rumble
\* crossover in the blended sketch, at or above the minimum threshold in the
\* other two Realtime sketches.
RumbleRange ==
  IF variant = "blended"
  THEN Effective >= WAVEFORM_RTP_THRESHOLD
  ELSE Effective >= MIN_INTENSITY_THRESHOLD
\* The last step is the first update processed since the timeout guard forced
\* Standby, and it asked for continuous drive.
UpdateAfterTimeout ==
  /\ variant \in RealtimeVariants
  /\ lastOp = "update"
  /\ pre.via = "timeout"
  /\ RumbleRange
ModeWrites == {i \in 1..Len(writes) : writes[i].op = "setMode"}

\* C33: the timeout does not latch.  The first rumble-range update processed
\* after the timeout guard forced Standby re-enters Realtime: it writes the
\* Realtime mode once, before its amplitude write, sets isMotorRunning (and
\* isInRealtimeMode where the sketch has it) and stamps lastReceivedMs.
C33_TimeoutDoesNotLatch ==
  UpdateAfterTimeout =>
    /\ ~pre.run /\ pre.mode = 0
    /\ Realtime
    /\ isMotorRunning
    /\ variant \in FlaggedVariants => isInRealtimeMode
    /\ lastReceivedMs = now
    /\ ModeWrites = {1}
    /\ writes[1] = ModeW(DRV2605_MODE_REALTIME)
    /\ writes[Len(writes)].op = "setRealtimeValue"
    /\ Len(writes) > 1

C33_Witness ==
  /\ UpdateAfterTimeout
  /\ variant = "blended"
  /\ Realtime /\ isMotorRunning /\ isInRealtimeMode
  /\ writes = <<ModeW(DRV2605_MODE_REALTIME), StopW, Rtp(255)>>

\* The last step was a tick of the timeout guard in a Realtime sketch that
\* found the motor driven in Realtime; the time since the last processed
\* update.
GuardTick == variant \in RealtimeVariants /\ lastOp = "timeout" /\ pre.mode = DRV2605_MODE_REALTIME
SinceUpdate == now - pre.last

\* C34: the guard does not fire while updates keep arriving.  In every loop
\* iteration the OSC handler has run when the guard is reached, a rumble-range
\* update it processed leaves no time elapsed, and a tick that finds at most
\* REALTIME_TIMEOUT_MS elapsed since the last processed update (exactly 500 ms
\* included) issues no write and leaves mode and flags as they were.
C34_NoTimeoutWhileUpdatesArrive ==
  /\ (variant \in RealtimeVariants /\ pc = "timeout") => lastOp \in {"update", "nopacket"}
  /\ (variant \in RealtimeVariants /\ lastOp = "update" /\ RumbleRange) =>
       pc = "timeout" /\ lastReceivedMs = now /\ Realtime
  /\ (GuardTick /\ SinceUpdate <= REALTIME_TIMEOUT_MS) =>
       /\ writes = <<>>
       /\ Realtime
       /\ isMotorRunning = pre.run /\ isInRealtimeMode = pre.rt
       /\ isMotorRunning

C34_Witness ==
  /\ GuardTick
  /\ variant = "blended"
  /\ SinceUpdate = REALTIME_TIMEOUT_MS
  /\ writes = <<>>
  /\ Realtime /\ isMotorRunning /\ isInRealtimeMode

\* millis() wrapped to 0 between the last processed update and the tick of
\* the guard: lastReceivedMs is a value just below 2^32, millis() a small one.
WrappedSinceUpdate ==
  /\ pre.last < 0 /\ now >= 0
  /\ Millis(pre.last).hi = HalfWord - 1 /\ Millis(now).hi = 0

\* C35: at every tick of the guard that finds the motor driven in Realtime,
\* also when millis() has wrapped since the last processed update, the elapsed
\* time computed modulo 2^32 is the elapsed time itself, and the guard forces
\* Standby exactly when more than REALTIME_TIMEOUT_MS have elapsed.
C35_ElapsedAcrossWrap ==
  GuardTick =>
    /\ ElapsedMs(now, pre.last) = [hi |-> 0, lo |-> SinceUpdate]
    /\ (writes # <<>>) <=> (SinceUpdate > REALTIME_TIMEOUT_MS)
    /\ writes # <<>> => ~Realtime /\ ~isMotorRunning

C35_Witness ==
  /\ GuardTick
  /\ WrappedSinceUpdate
  /\ SinceUpdate > REALTIME_TIMEOUT_MS
  /\ writes = <<Rtp(0), ModeW(0)>>
  /\ ~Realtime /\ ~isMotorRunning

\* The values computed without narrowing: the gain of a library update, the
\* gain of a test waveform and the Realtime amplitude.
ExactGain == RoundProduct(Normalized, MaxGainOf(variant) - MinGainOf(variant)) + MinGainOf(variant)
ExactTestGain ==
  RoundDiv(lastRaw * (TestMaxGain(variant) - TestMinGain(variant)), 100) + TestMinGain(variant)
ExactAmplitude ==
  (255 * Constrain(applyGammaMapping(Effective, GAMMA), 0, 1000000) + 500000) \div 1000000
TestRun == lastOp = "testwave"
RealtimeProbed == Probed /\ variant \in RealtimeVariants /\ RumbleRange

\* C36: the 8-bit arithmetic never wraps.  The gain of every library update,
\* the gain of every test waveform (gain_percent 0..100) and the amplitude of
\* every Realtime update are at most 255 before they are narrowed to uint8_t,
\* and the value written is the value computed.
C36_NoWrap ==
  /\ LibraryProbed => ExactGain <= 255 /\ WrittenGain = ExactGain
  /\ TestRun => ExactTestGain <= 255 /\ WrittenGain = ExactTestGain
  /\ RealtimeProbed =>
       ExactAmplitude <= 255 /\ writes[Len(writes)] = Rtp(ExactAmplitude)

C36_Witness ==
  /\ TestRun
  /\ variant = "amplitude"
  /\ lastRaw = 100
  /\ WrittenGain = 255

\* The last step was an update of the blended sketch that triggered a click.
ClickTriggered == variant = "blended" /\ lastOp = "update" /\ PlayedClick
\* The mode register a click is triggered under when the update leaves
\* Realtime: the value the click branch then writes.
ModeOfClickAfterRealtime ==
  LET ws == setMotorBlendedRTP(TRUE, TRUE, 0, SCALE - MIN_INTENSITY_THRESHOLD, 0, GAMMA_DEFAULT).w
  IN  ws[CHOOSE i \in 1..Len(ws) : ws[i].op = "setMode"].a

\* C37: in the blended sketch every click is triggered under the same
\* mode-register value, the one a click played on leaving Realtime is
\* triggered under, whatever happened before (setup, a stop, a timeout, an
\* earlier click, Realtime drive).
C37_ClickModeIndependentOfHistory ==
  ClickTriggered => drv.mode = ModeOfClickAfterRealtime

\* The last step was the web test action of the blended or HD-rumble sketch.
TestDone == variant \in FlaggedVariants /\ lastOp = "test"
AmplitudeWrites == {i \in 1..Len(writes) : writes[i].op = "setRealtimeValue"}

\* C38: the web test action always ends in Standby.  Whatever the mode and
\* the flags were when it started, after it the last amplitude written is 0,
\* the last mode written is Standby, the amplitude write precedes the mode
\* write, and isMotorRunning and isInRealtimeMode are both false.
C38_TestEndsInStandby ==
  TestDone =>
    /\ drv.rtp = 0
    /\ drv.mode = StandbyMode(variant)
    /\ ~isMotorRunning /\ ~isInRealtimeMode
    /\ writes[Len(writes)] = ModeW(StandbyMode(variant))
    /\ AmplitudeWrites # {} /\ writes[Len(writes) - 1] = Rtp(0)
    /\ \A i \in AmplitudeWrites : i < Len(writes)

C38_Witness ==
  /\ TestDone
  /\ variant = "rumble"
  /\ pre.run /\ pre.rt /\ pre.mode = DRV2605_MODE_REALTIME
  /\ drv.rtp = 0 /\ drv.mode = 0
  /\ ~isMotorRunning /\ ~isInRealtimeMode
====
